---- MODULE Spec2Model ----
(***************************************************************************)
(* Model of gitops-generator.                                              *)
(*                                                                         *)
(* Spec: the Git synchronisation driver, CloneGenerateAndPush,             *)
(* GenerateOverlaysAndPush, RemoveAndPush and CommitAndPush, the commands  *)
(* they hand to the Executor, the errors they return and their effect on   *)
(* the working tree and on the remote.                                     *)
(* SpecResources, SpecPatches: the Kustomization type, its operations on   *)
(* the resources and bases lists and on the patches list.                  *)
(* SpecOverlays: GenerateOverlays on an output folder.                     *)
(* SpecGenerate: Generate on an output folder.                             *)
(* SpecSynthesis: the Deployment, Service and Deployment patch manifests   *)
(* made from a component, and the created-by label of GenerateAndPush.     *)
(* SpecUtil: ValidateRemote and SanitizeErrorMessage.                      *)
(* SpecExecutor: CmdExecutor.Execute.                                      *)
(* SpecTerminating: Spec with every step of a started call taken in the   *)
(* end.                                                                    *)
(* SpecPush: the driver together with GenerateAndPush, which creates the   *)
(* repository on the hosting service and pushes the first commit.          *)
(***************************************************************************)
EXTENDS Integers, Sequences, FiniteSets, TLC

(***************************************************************************)
(* Paths.  A path is a record [abs, segs]: abs says whether the string     *)
(* starts with a separator, segs are its elements.  "" is EmptyPath, "/"   *)
(* is RootPath, "." is DotPath.                                            *)
(***************************************************************************)
EmptyPath == [abs |-> FALSE, segs |-> <<>>]

RootPath == [abs |-> TRUE, segs |-> <<>>]

DotPath == [abs |-> FALSE, segs |-> <<".">>]

Rel(segs) == [abs |-> FALSE, segs |-> segs]

Abs(segs) == [abs |-> TRUE, segs |-> segs]

\* path/filepath.Clean on the elements of a path: "." is dropped, ".." eats
\* the element before it, "/.." is "/", a relative path keeps leading "..".
RECURSIVE CleanSegs(_, _, _)
CleanSegs(abs, todo, out) ==
    IF todo = <<>> THEN out
    ELSE LET s == Head(todo)
             r == Tail(todo)
         IN  IF s = "." THEN CleanSegs(abs, r, out)
             ELSE IF s = ".."
                  THEN IF out # <<>> /\ out[Len(out)] # ".."
                       THEN CleanSegs(abs, r, SubSeq(out, 1, Len(out) - 1))
                       ELSE IF abs THEN CleanSegs(abs, r, out)
                            ELSE CleanSegs(abs, r, Append(out, ".."))
                  ELSE CleanSegs(abs, r, Append(out, s))

Clean(p) ==
    LET c == CleanSegs(p.abs, p.segs, <<>>)
    IN  IF ~p.abs /\ c = <<>> THEN DotPath ELSE [abs |-> p.abs, segs |-> c]

RECURSIVE ConcatSegs(_)
ConcatSegs(es) ==
    IF es = <<>> THEN <<>> ELSE Head(es).segs \o ConcatSegs(Tail(es))

\* path/filepath.Join: empty elements are ignored, the rest is joined with
\* separators and cleaned; the result is "" when every element is empty.
\* (ne is bound as an element of a set, so that the elements are evaluated
\* once however deep the calls of Join are nested.)
Join(es) ==
    CHOOSE joined \in
        {IF ne = <<>> THEN EmptyPath
         ELSE Clean([abs |-> ne[1].abs, segs |-> ConcatSegs(ne)]) :
            ne \in {SelectSeq(es, LAMBDA e : e # EmptyPath)}} : TRUE

\* The directory a command argument names when the command runs in baseDir
\* (exec.Command with c.Dir = baseDir): an absolute argument is itself, a
\* relative one is taken from baseDir.
Resolve(baseDir, arg) == IF arg.abs THEN Clean(arg) ELSE Join(<<baseDir, arg>>)

\* p is dir or lies below it (both cleaned absolute paths).
IsUnder(p, dir) ==
    /\ Len(p.segs) >= Len(dir.segs)
    /\ SubSeq(p.segs, 1, Len(dir.segs)) = dir.segs

IsStrictlyUnder(p, dir) == IsUnder(p, dir) /\ Len(p.segs) > Len(dir.segs)

(***************************************************************************)
(* Values handed around: words of a command line, the remote URL, texts.   *)
(***************************************************************************)
Word(s) == [word |-> s]

\* remote: "https://<token>@github.com/testing/testing.git"
Remote(token) == [scheme |-> "https://", token |-> token,
                  host |-> "github.com/testing/testing.git"]

Tokens == {"ghu_28lafsjdifouwej", "ghp_fj3492danj924"}

OutputPath == Abs(<<"fake", "path">>)

ComponentName == Rel(<<"test-component">>)

ApplicationName == Rel(<<"test-application">>)

EnvironmentName == Rel(<<"environment">>)

Branch == Word("main")

\* context: the path within the repository to generate the resources in.
Contexts == {EmptyPath, RootPath, Rel(<<"gitops">>), Rel(<<"..">>)}

TargetPorts == {0, 5000}

\* What a failing command hands back: its combined output and its error.
Outputs == {"", "test output1"}

ExecError == "Fatal error"

\* The combined output of a successful `git diff --cached`.
DiffOutputs == {"", "test output5"}

\* How many sync calls one behaviour makes.
MaxCalls == 2

(***************************************************************************)
(* State.                                                                  *)
(*   call          the running (or last) call: its name and arguments      *)
(*   pc            the next step of the running call; "idle" before the    *)
(*                 first call, "done" after a return                       *)
(*   ret           what the call returned: Pending, Nil or an error        *)
(*   executedCmds  the Executions handed to the Executor in this call      *)
(*   cmdResults    per execution "ok" or "err"                             *)
(*   diffOut       the output of this call's successful diff               *)
(*   regen         how this call's regeneration ended: "none" while it     *)
(*                 has not run, then "ok" or "err"                         *)
(*   disk          the files below the output directory (absolute paths)   *)
(*   remoteFiles   the files of the remote repository (relative paths)     *)
(*   calls         calls started so far                                    *)
(*   componentGeneratedResources                                           *)
(*                 the caller's map from a component name to the patch     *)
(*                 files the overlay generator recorded for it; the caller *)
(*                 hands the same map to every call                        *)
(*   scmCalls      the calls this call made on the client of the hosting   *)
(*                 service, each with "ok" or "err"                        *)
(* The driver leaves the others alone; they are the state of the           *)
(* specifications of the Kustomization type and of the generators:         *)
(*   kust          a Kustomization value in memory (the receiver k)        *)
(*   folder        the files of a generator's output folder: name -> what  *)
(*                 the file holds                                          *)
(*   history       what was applied to kust or to folder: the last         *)
(*                 operation with its arguments and result, and what was   *)
(*                 added since the start                                   *)
(*   CreatedBy     the package variable CreatedBy: the value of the label  *)
(*                 app.kubernetes.io/created-by of the default labels      *)
(***************************************************************************)
VARIABLES call, pc, ret, executedCmds, cmdResults, diffOut, regen, disk, remoteFiles,
          calls, componentGeneratedResources, scmCalls, kust, folder, history,
          CreatedBy

vars == <<call, pc, ret, executedCmds, cmdResults, diffOut, regen, disk, remoteFiles,
          calls, componentGeneratedResources, scmCalls, kust, folder, history,
          CreatedBy>>

driverVars == <<call, pc, ret, executedCmds, cmdResults, diffOut, regen, disk,
                remoteFiles, calls, componentGeneratedResources, scmCalls>>

generatorVars == <<kust, folder, history, CreatedBy>>

\* No operation applied yet.
NoOp == [op |-> "none"]

\* The value of CreatedBy when the process starts.
DefaultCreatedBy == "application-service"

\* A directory without files.
EmptyFolder == <<>>

\* resources.Kustomization{}: the zero value of the type.
ZeroKustomization ==
    [APIVersion |-> "", Kind |-> "", Resources |-> <<>>, Bases |-> <<>>,
     Patches |-> <<>>]

\* The generators' state while the driver's specification runs.
GeneratorsIdle ==
    /\ kust = ZeroKustomization
    /\ folder = EmptyFolder
    /\ history = NoOp
    /\ CreatedBy = DefaultCreatedBy

Pending == [state |-> "pending"]

Nil == [state |-> "nil"]

\* fmt.Errorf(format, args...)
Errorf(format, args) == [state |-> "error", fmt |-> format, args |-> args]

NoOutput == "<none>"

NoCall == [op |-> "none"]

Execution(baseDir, command, args) ==
    [BaseDir |-> baseDir, Command |-> command, Args |-> args]

(***************************************************************************)
(* The directories and arguments each sync function computes.              *)
(***************************************************************************)
Components == Rel(<<"components">>)

\* The directory name handed to `git clone`: component.Name, or
\* applicationName for the overlays.
CloneDir(c) ==
    IF c.op = "GenerateOverlaysAndPush" THEN c.applicationName
    ELSE c.componentName

\* repoPath := filepath.Join(outputPath, componentName | applicationName)
RepoPath(c) == Join(<<c.outputPath, CloneDir(c)>>)

\* gitopsFolder := filepath.Join(repoPath, context)
GitopsFolder(c) == Join(<<RepoPath(c), c.context>>)

\* componentPath / componentEnvOverlaysPath: where regeneration writes.
ComponentPath(c) ==
    CASE c.op = "CloneGenerateAndPush" ->
           Join(<<GitopsFolder(c), Components, c.componentName, Rel(<<"base">>)>>)
      [] c.op = "GenerateOverlaysAndPush" ->
           Join(<<GitopsFolder(c), Components, c.componentName,
                  Rel(<<"overlays">>), c.environmentName>>)
      [] OTHER ->
           Join(<<GitopsFolder(c), Components, c.componentName>>)

\* Mutant: every purge removes the base directory of the component only.
PurgeArgBaseOnly(c) ==
    IF c.op = "CloneGenerateAndPush"
    THEN Join(<<Components, c.componentName, Rel(<<"base">>)>>)
    ELSE Join(<<ComponentPath(c), Rel(<<"base">>)>>)

\* The path argument of `rm -rf`.
PurgeArg(c) ==
    IF c.op = "CloneGenerateAndPush"
    THEN Join(<<Components, c.componentName, Rel(<<"base">>)>>)
    ELSE ComponentPath(c)

\* The directory `rm -rf` deletes: its argument, taken from the working
\* directory of the command (repoPath).
PurgeTarget(c) == Resolve(RepoPath(c), PurgeArg(c))

\* Mutant: no function hands a repoPathOverride to CommitAndPush.
RepoPathOverrideNone(c) == EmptyPath

\* The repoPathOverride each function hands to CommitAndPush.
RepoPathOverride(c) ==
    CASE c.op = "GenerateOverlaysAndPush" -> c.applicationName
      [] c.op = "CommitAndPush" -> c.repoPathOverride
      [] OTHER -> EmptyPath

\* CommitAndPush's repoPath.
CommitRepoPath(c) ==
    IF RepoPathOverride(c) # EmptyPath
    THEN Join(<<c.outputPath, RepoPathOverride(c)>>)
    ELSE Join(<<c.outputPath, c.componentName>>)

\* Mutant: every function commits with the message of GenerateAndPush.
CommitMessageFixed(c) == [fmt |-> "Generate GitOps resources", args |-> <<>>]

\* The commit message each function hands to CommitAndPush.
CommitMessage(c) ==
    CASE c.op = "CloneGenerateAndPush" ->
           [fmt |-> "Generate GitOps base resources for component %s",
            args |-> <<c.componentName>>]
      [] c.op = "GenerateOverlaysAndPush" ->
           [fmt |-> "Generate %s environment overlays for component %s",
            args |-> <<c.environmentName, c.componentName>>]
      [] c.op = "RemoveAndPush" ->
           [fmt |-> "Removed component %s", args |-> <<c.componentName>>]
      [] OTHER -> c.commitMessage

(***************************************************************************)
(* The commands.                                                           *)
(***************************************************************************)
CloneCmd(c) ==
    Execution(c.outputPath, "git", <<Word("clone"), c.remote, CloneDir(c)>>)

SwitchCmd(c) == Execution(RepoPath(c), "git", <<Word("switch"), c.branch>>)

CheckoutCmd(c) ==
    Execution(RepoPath(c), "git", <<Word("checkout"), Word("-b"), c.branch>>)

RmCmd(c) == Execution(RepoPath(c), "rm", <<Word("-rf"), PurgeArg(c)>>)

AddCmd(c) == Execution(CommitRepoPath(c), "git", <<Word("add"), Word(".")>>)

DiffCmd(c) ==
    Execution(CommitRepoPath(c), "git",
              <<Word("--no-pager"), Word("diff"), Word("--cached")>>)

CommitCmd(c) ==
    Execution(CommitRepoPath(c), "git",
              <<Word("commit"), Word("-m"), CommitMessage(c)>>)

PushCmd(c) ==
    Execution(CommitRepoPath(c), "git", <<Word("push"), Word("origin"), c.branch>>)

(***************************************************************************)
(* The errors.                                                             *)
(***************************************************************************)
CloneError(c, out) ==
    Errorf("failed to clone git repository in %q %q: %s",
           <<c.outputPath, Word(out), Word(ExecError)>>)

CheckoutError(c, out) ==
    Errorf("failed to checkout branch %q in %q %q: %s",
           <<c.branch, RepoPath(c), Word(out), Word(ExecError)>>)

RmError(c, out) ==
    Errorf("failed to delete %q folder in repository in %q %q: %s",
           <<PurgeArg(c), RepoPath(c), Word(out), Word(ExecError)>>)

GenerateError(c, err) ==
    CASE c.op = "CloneGenerateAndPush" ->
           Errorf("failed to generate the gitops resources in %q for component %q: %s",
                  <<ComponentPath(c), c.componentName, Word(err)>>)
      [] c.op = "GenerateOverlaysAndPush" ->
           Errorf("failed to generate the gitops resources in overlays dir %q for component %q: %s",
                  <<ComponentPath(c), c.componentName, Word(err)>>)
      [] OTHER ->
           Errorf("failed to re-generate the gitops resources in %q for component %q: %s",
                  <<ComponentPath(c), c.componentName, Word(err)>>)

AddError(c, out) ==
    Errorf("failed to add files for component %q to repository in %q %q: %s",
           <<c.componentName, CommitRepoPath(c), Word(out), Word(ExecError)>>)

DiffError(c, out) ==
    Errorf("failed to check git diff in repository %q %q: %s",
           <<CommitRepoPath(c), Word(out), Word(ExecError)>>)

CommitError(c, out) ==
    Errorf("failed to commit files to repository in %q %q: %s",
           <<CommitRepoPath(c), Word(out), Word(ExecError)>>)

PushError(c, out) ==
    Errorf("failed push remote to repository %q %q: %s",
           <<c.remote, Word(out), Word(ExecError)>>)

\* The text of a value as fmt prints it, in pieces: a path is its
\* elements, the remote is the whole URL, token included.
Render(v) ==
    CASE "word" \in DOMAIN v -> <<v.word>>
      [] "token" \in DOMAIN v -> <<v.scheme, v.token, "@", v.host>>
      [] "segs" \in DOMAIN v -> (IF v.abs THEN <<"/">> ELSE <<>>) \o v.segs
      [] OTHER -> <<>>

RECURSIVE RenderAll(_)
RenderAll(args) ==
    IF args = <<>> THEN <<>> ELSE Render(Head(args)) \o RenderAll(Tail(args))

\* err.Error(): the format and the printed arguments, in pieces.
ErrorText(e) == <<e.fmt>> \o RenderAll(e.args)

(***************************************************************************)
(* The working tree and the remote.                                        *)
(***************************************************************************)
File(dir, name) == Join(<<dir, Rel(<<name>>)>>)

\* The files of disk in dir or below it.
FilesUnder(files, dir) == {f \in files : IsUnder(f, dir)}

\* The path of f relative to dir (f lies below dir).
RelativeTo(f, dir) == Rel(SubSeq(f.segs, Len(dir.segs) + 1, Len(f.segs)))

\* A successful clone: the remote's files appear below the destination.
ClonedTree(files, dest, remote) == files \cup {Join(<<dest, f>>) : f \in remote}

\* A successful `rm -rf target`: nothing is left in target or below it.
Removed(files, target) == files \ FilesUnder(files, target)

\* A successful push: the remote holds the working tree of repoPath.
PushedTree(files, repo) ==
    {RelativeTo(f, repo) : f \in {g \in files : IsStrictlyUnder(g, repo)}}

\* The manifests Generate writes for a component without resources of its
\* own: the Deployment always, the Service and the Route when the target
\* port is set, and the kustomization.
GeneratedFiles(targetPort) ==
    {"deployment.yaml", "kustomization.yaml"}
        \cup (IF targetPort # 0 THEN {"service.yaml", "route.yaml"} ELSE {})

\* The files GenerateOverlays writes.
OverlayFiles == {"deployment-patch.yaml", "kustomization.yaml"}

\* The base Deployment GenerateOverlays reads: ../../base/deployment.yaml
\* from the overlays folder.
BaseDeployment(outputFolder) ==
    Join(<<outputFolder, Rel(<<"..", "..", "base", "deployment.yaml">>)>>)

GenerateErr == "failed to MkDirAll"

\* map[string][]string{}: a map without keys.
EmptyMap == <<>>

\* m[name], the zero value (no filenames) for a key m does not hold.
Lookup(m, name) == IF name \in DOMAIN m THEN m[name] ELSE <<>>

\* m after m[name] = files.
Store(m, name, files) ==
    [n \in DOMAIN m \cup {name} |-> IF n = name THEN files ELSE m[n]]

\* componentGeneratedResources after a GenerateOverlays that succeeded for
\* the component name: the patch file it wrote is recorded after the
\* filenames the map already held for that component.
Recorded(m, name) ==
    Store(m, name, Append(Lookup(m, name), "deployment-patch.yaml"))

\* The maps a caller hands to its first call: a new one, TestGenerateOverlays'
\* one with a patch recorded for the component, one that knows another
\* component only.
CallerMaps ==
    {EmptyMap,
     Store(EmptyMap, ComponentName, <<"patch1.yaml">>),
     Store(EmptyMap, Rel(<<"other-component">>), <<"deployment-patch.yaml">>)}

(***************************************************************************)
(* A call starts.  The output directory is a new, empty one or the one the *)
(* previous call left behind.                                              *)
(***************************************************************************)
Call(op, token, context, doPush, clone, targetPort, override) ==
    [op |-> op, outputPath |-> OutputPath, remote |-> Remote(token),
     componentName |-> ComponentName, applicationName |-> ApplicationName,
     environmentName |-> EnvironmentName, branch |-> Branch,
     context |-> context, doPush |-> doPush, clone |-> clone,
     targetPort |-> targetPort, repoPathOverride |-> override,
     commitMessage |-> [fmt |-> "Update", args |-> <<>>]]

\* A call may start when none is running and the bound allows one more.
CanStart == pc \in {"idle", "done"} /\ calls < MaxCalls

Start(c, first) ==
    /\ calls' = calls + 1
    /\ call' = c
    /\ pc' = first
    /\ ret' = Pending
    /\ executedCmds' = <<>>
    /\ cmdResults' = <<>>
    /\ diffOut' = NoOutput
    /\ regen' = "none"
    /\ disk' \in {disk, {}}
    /\ scmCalls' = <<>>
    /\ UNCHANGED <<remoteFiles, componentGeneratedResources,
                   generatorVars>>

CallCloneGenerateAndPush ==
    /\ CanStart
    /\ \E token \in Tokens, context \in Contexts, doPush \in BOOLEAN, port \in TargetPorts :
       Start(Call("CloneGenerateAndPush", token, context, doPush, TRUE, port, EmptyPath),
             "clone")

\* Mutant: the overlays call clones whatever its clone argument says.
CallGenerateOverlaysAndPushAlwaysClone ==
    /\ CanStart
    /\ \E token \in Tokens, context \in Contexts, doPush \in BOOLEAN, clone \in BOOLEAN :
       Start(Call("GenerateOverlaysAndPush", token, context, doPush, clone, 0, EmptyPath),
             "clone")

CallGenerateOverlaysAndPush ==
    /\ CanStart
    /\ \E token \in Tokens, context \in Contexts, doPush \in BOOLEAN, clone \in BOOLEAN :
       Start(Call("GenerateOverlaysAndPush", token, context, doPush, clone, 0, EmptyPath),
             IF clone THEN "clone" ELSE "generate")

CallRemoveAndPush ==
    /\ CanStart
    /\ \E token \in Tokens, context \in Contexts, doPush \in BOOLEAN :
       Start(Call("RemoveAndPush", token, context, doPush, TRUE, 0, EmptyPath), "clone")

CallCommitAndPush ==
    /\ CanStart
    /\ \E token \in Tokens, override \in {EmptyPath, ApplicationName} :
       Start(Call("CommitAndPush", token, EmptyPath, TRUE, FALSE, 0, override), "add")

(***************************************************************************)
(* The steps of a call.  Each hands one command to the Executor (or calls  *)
(* the generator) and either goes on or returns.                           *)
(***************************************************************************)
Executed(cmd, result) ==
    /\ executedCmds' = Append(executedCmds, cmd)
    /\ cmdResults' = Append(cmdResults, result)

Return(value) ==
    /\ pc' = "done"
    /\ ret' = value

Goto(step) ==
    /\ pc' = step
    /\ ret' = ret

\* Mutant: the overlays are purged like the base.
AfterBranchAlwaysPurge(c) == "rm"

\* Where a call goes after the branch is resolved.
AfterBranch(c) == IF c.op = "GenerateOverlaysAndPush" THEN "generate" ELSE "rm"

\* if doPush { return CommitAndPush(...) }; return nil
AfterGenerate(c) ==
    IF c.doPush THEN Goto("add") ELSE Return(Nil)

\* Mutant: the diff output is not looked at, the commit is always made.
AfterDiffAlwaysCommit(out) == Goto("commit")

\* } else if string(out) != "" { commit and push }; return nil
AfterDiff(out) ==
    IF out # "" THEN Goto("commit") ELSE Return(Nil)

\* Mutant: a failed `git switch` is ignored, the branch is not created.
OnSwitchFailureIgnored == Goto(AfterBranch(call))

\* Mutant: a failed `git switch` is tried again.
OnSwitchFailureRetried == Goto("switch")

\* A failed `git switch` is not returned: `git checkout -b` is tried.
OnSwitchFailure == Goto("checkout")

\* git clone <remote> <dir> in outputPath.  git clones only into a missing or
\* empty directory; its error is returned.
Clone ==
    /\ pc = "clone"
    /\ \/ /\ FilesUnder(disk, RepoPath(call)) = {}
          /\ Executed(CloneCmd(call), "ok")
          /\ disk' = ClonedTree(disk, RepoPath(call), remoteFiles)
          /\ Goto("switch")
       \/ \E out \in Outputs :
          /\ Executed(CloneCmd(call), "err")
          /\ Return(CloneError(call, out))
          /\ disk' = disk
    /\ UNCHANGED <<call, diffOut, regen, remoteFiles, calls, componentGeneratedResources,
                   scmCalls, generatorVars>>

\* git switch <branch>; its error is not returned.
Switch ==
    /\ pc = "switch"
    /\ \/ /\ Executed(SwitchCmd(call), "ok")
          /\ Goto(AfterBranch(call))
       \/ /\ Executed(SwitchCmd(call), "err")
          /\ OnSwitchFailure
    /\ UNCHANGED <<call, diffOut, regen, disk, remoteFiles, calls,
                   componentGeneratedResources, scmCalls, generatorVars>>

\* git checkout -b <branch>, reached only from a failed switch.
Checkout ==
    /\ pc = "checkout"
    /\ \/ /\ Executed(CheckoutCmd(call), "ok")
          /\ Goto(AfterBranch(call))
       \/ \E out \in Outputs :
          /\ Executed(CheckoutCmd(call), "err")
          /\ Return(CheckoutError(call, out))
    /\ UNCHANGED <<call, diffOut, regen, disk, remoteFiles, calls,
                   componentGeneratedResources, scmCalls, generatorVars>>

\* rm -rf of the component's directory, run in repoPath.
Purge ==
    /\ pc = "rm"
    /\ \/ /\ Executed(RmCmd(call), "ok")
          /\ disk' = Removed(disk, PurgeTarget(call))
          /\ Goto("generate")
       \/ \E out \in Outputs :
          /\ Executed(RmCmd(call), "err")
          /\ Return(RmError(call, out))
          /\ disk' = disk
    /\ UNCHANGED <<call, diffOut, regen, remoteFiles, calls, componentGeneratedResources,
                   scmCalls, generatorVars>>

\* Mutant: Generate's error is dropped and the call goes on to the commit.
GenerateIgnoringError ==
    /\ pc = "generate"
    /\ call.op = "CloneGenerateAndPush"
    /\ \/ /\ disk' = disk \cup {File(ComponentPath(call), n) :
                                   n \in GeneratedFiles(call.targetPort)}
          /\ regen' = "ok"
          /\ AfterGenerate(call)
       \/ /\ disk' = disk
          /\ regen' = "err"
          /\ IF call.doPush THEN Goto("add") ELSE Return(Nil)
    /\ UNCHANGED <<call, executedCmds, cmdResults, diffOut, remoteFiles, calls,
                   componentGeneratedResources, scmCalls, generatorVars>>

\* Generate(appFs, gitopsFolder, componentPath, component): writes the base
\* manifests into componentPath, or fails and writes nothing.
Generate ==
    /\ pc = "generate"
    /\ call.op = "CloneGenerateAndPush"
    /\ \/ /\ disk' = disk \cup {File(ComponentPath(call), n) :
                                   n \in GeneratedFiles(call.targetPort)}
          /\ regen' = "ok"
          /\ AfterGenerate(call)
       \/ /\ disk' = disk
          /\ regen' = "err"
          /\ Return(GenerateError(call, GenerateErr))
    /\ UNCHANGED <<call, executedCmds, cmdResults, diffOut, remoteFiles, calls,
                   componentGeneratedResources, scmCalls, generatorVars>>

\* GenerateOverlays(appFs, gitopsFolder, componentEnvOverlaysPath, ...): needs
\* the base Deployment, writes the patch and the kustomization.
\* Mutant: the generator is handed a map of the driver's own, so that the
\* caller's map stays as it was.
GenerateOverlaysWithOwnMap ==
    /\ pc = "generate"
    /\ call.op = "GenerateOverlaysAndPush"
    /\ \/ /\ BaseDeployment(ComponentPath(call)) \in disk
          /\ disk' = disk \cup {File(ComponentPath(call), n) : n \in OverlayFiles}
          /\ regen' = "ok"
          /\ AfterGenerate(call)
       \/ /\ disk' = disk
          /\ regen' = "err"
          /\ Return(GenerateError(call, GenerateErr))
    /\ UNCHANGED <<call, executedCmds, cmdResults, diffOut, remoteFiles, calls,
                   componentGeneratedResources, scmCalls, generatorVars>>

GenerateOverlays ==
    /\ pc = "generate"
    /\ call.op = "GenerateOverlaysAndPush"
    /\ \/ /\ BaseDeployment(ComponentPath(call)) \in disk
          /\ disk' = disk \cup {File(ComponentPath(call), n) : n \in OverlayFiles}
          /\ componentGeneratedResources' =
                Recorded(componentGeneratedResources, call.componentName)
          /\ regen' = "ok"
          /\ AfterGenerate(call)
       \/ /\ disk' = disk
          /\ componentGeneratedResources' = componentGeneratedResources
          /\ regen' = "err"
          /\ Return(GenerateError(call, GenerateErr))
    /\ UNCHANGED <<call, executedCmds, cmdResults, diffOut, remoteFiles, calls,
                   scmCalls, generatorVars>>

\* e.GenerateParentKustomize(appFs, gitopsFolder): rewrites the parent
\* kustomization from the files still on disk.
GenerateParentKustomize ==
    /\ pc = "generate"
    /\ call.op = "RemoveAndPush"
    /\ \/ /\ disk' = disk \cup {File(GitopsFolder(call), "kustomization.yaml")}
          /\ regen' = "ok"
          /\ AfterGenerate(call)
       \/ /\ disk' = disk
          /\ regen' = "err"
          /\ Return(GenerateError(call, GenerateErr))
    /\ UNCHANGED <<call, executedCmds, cmdResults, diffOut, remoteFiles, calls,
                   componentGeneratedResources, scmCalls, generatorVars>>

\* Mutant: the error of `git add` is dropped and the call goes on.
AddIgnoringError ==
    /\ pc = "add"
    /\ \/ /\ Executed(AddCmd(call), "ok")
          /\ Goto("diff")
       \/ /\ Executed(AddCmd(call), "err")
          /\ Goto("diff")
    /\ UNCHANGED <<call, diffOut, regen, disk, remoteFiles, calls,
                   componentGeneratedResources, scmCalls, generatorVars>>

\* git add .
Add ==
    /\ pc = "add"
    /\ \/ /\ Executed(AddCmd(call), "ok")
          /\ Goto("diff")
       \/ \E out \in Outputs :
          /\ Executed(AddCmd(call), "err")
          /\ Return(AddError(call, out))
    /\ UNCHANGED <<call, diffOut, regen, disk, remoteFiles, calls,
                   componentGeneratedResources, scmCalls, generatorVars>>

\* git --no-pager diff --cached; its output decides about commit and push.
Diff ==
    /\ pc = "diff"
    /\ \/ \E out \in DiffOutputs :
          /\ Executed(DiffCmd(call), "ok")
          /\ diffOut' = out
          /\ AfterDiff(out)
       \/ \E out \in Outputs :
          /\ Executed(DiffCmd(call), "err")
          /\ diffOut' = diffOut
          /\ Return(DiffError(call, out))
    /\ UNCHANGED <<call, regen, disk, remoteFiles, calls, componentGeneratedResources,
                   scmCalls, generatorVars>>

\* Mutant: the error of `git commit` is dropped and the push is made.
CommitIgnoringError ==
    /\ pc = "commit"
    /\ \/ /\ Executed(CommitCmd(call), "ok")
          /\ Goto("push")
       \/ /\ Executed(CommitCmd(call), "err")
          /\ Goto("push")
    /\ UNCHANGED <<call, diffOut, regen, disk, remoteFiles, calls,
                   componentGeneratedResources, scmCalls, generatorVars>>

\* git commit -m <message>
Commit ==
    /\ pc = "commit"
    /\ \/ /\ Executed(CommitCmd(call), "ok")
          /\ Goto("push")
       \/ \E out \in Outputs :
          /\ Executed(CommitCmd(call), "err")
          /\ Return(CommitError(call, out))
    /\ UNCHANGED <<call, diffOut, regen, disk, remoteFiles, calls,
                   componentGeneratedResources, scmCalls, generatorVars>>

\* git push origin <branch>
Push ==
    /\ pc = "push"
    /\ \/ /\ Executed(PushCmd(call), "ok")
          /\ remoteFiles' = PushedTree(disk, CommitRepoPath(call))
          /\ Return(Nil)
       \/ \E out \in Outputs :
          /\ Executed(PushCmd(call), "err")
          /\ remoteFiles' = remoteFiles
          /\ Return(PushError(call, out))
    /\ UNCHANGED <<call, diffOut, regen, disk, calls, componentGeneratedResources,
                   scmCalls, generatorVars>>

\* The driver before its first call.
DriverIdle ==
    /\ call = NoCall
    /\ pc = "idle"
    /\ ret = Pending
    /\ executedCmds = <<>>
    /\ cmdResults = <<>>
    /\ diffOut = NoOutput
    /\ regen = "none"
    /\ disk = {}
    /\ remoteFiles = {}
    /\ calls = 0
    /\ scmCalls = <<>>

\* The caller has made no map yet.
NoCaller == componentGeneratedResources = EmptyMap

Init == DriverIdle /\ GeneratorsIdle /\ componentGeneratedResources \in CallerMaps

Next ==
    \/ CallCloneGenerateAndPush
    \/ CallGenerateOverlaysAndPush
    \/ CallRemoveAndPush
    \/ CallCommitAndPush
    \/ Clone
    \/ Switch
    \/ Checkout
    \/ Purge
    \/ Generate
    \/ GenerateOverlays
    \/ GenerateParentKustomize
    \/ Add
    \/ Diff
    \/ Commit
    \/ Push

Spec == Init /\ [][Next]_vars

(***************************************************************************)
(* The driver with every step of a started call taken in the end: the      *)
(* Executor and the filesystem return from each call made to them.  The    *)
(* caller is free to start no further call.                                *)
(***************************************************************************)
Step ==
    \/ Clone
    \/ Switch
    \/ Checkout
    \/ Purge
    \/ Generate
    \/ GenerateOverlays
    \/ GenerateParentKustomize
    \/ Add
    \/ Diff
    \/ Commit
    \/ Push

InitTerminating == DriverIdle /\ GeneratorsIdle /\ NoCaller

SpecTerminating == InitTerminating /\ [][Next]_vars /\ WF_vars(Step)

(***************************************************************************)
(* Reading the record of a call.                                           *)
(***************************************************************************)
Cmds == DOMAIN executedCmds

IsGit(e, verb) == e.Command = "git" /\ e.Args[1] = Word(verb)

IsClone(e) == IsGit(e, "clone")

IsSwitch(e) == IsGit(e, "switch")

IsCheckout(e) == IsGit(e, "checkout") /\ e.Args[2] = Word("-b")

IsRm(e) == e.Command = "rm" /\ e.Args[1] = Word("-rf")

IsAdd(e) == IsGit(e, "add")

IsDiff(e) == IsGit(e, "--no-pager") /\ e.Args[2] = Word("diff")

IsCommit(e) == IsGit(e, "commit")

IsPush(e) == IsGit(e, "push")

Ran(Is(_)) == \E i \in Cmds : Is(executedCmds[i])

Count(Is(_)) == Cardinality({i \in Cmds : Is(executedCmds[i])})

Returned == pc = "done"

ReturnedError == Returned /\ ret.state = "error"

ReturnedNil == Returned /\ ret = Nil

\* v is among the arguments the returned error prints.
ErrorNames(v) == \E k \in DOMAIN ret.args : ret.args[k] = v

DiffWasEmpty ==
    \E i \in Cmds : /\ IsDiff(executedCmds[i])
                    /\ cmdResults[i] = "ok"
                    /\ diffOut = ""

(***************************************************************************)
(* C1.  Diff-gate: when `git --no-pager diff --cached` succeeds with empty *)
(* output, neither `git commit` nor `git push` is executed and the call    *)
(* returns success.                                                        *)
(***************************************************************************)
C1_DiffGate ==
    DiffWasEmpty => /\ ~Ran(IsCommit)
                    /\ ~Ran(IsPush)
                    /\ ReturnedNil

C1_Witness ==
    /\ DiffWasEmpty
    /\ call.op = "CloneGenerateAndPush"
    /\ regen = "ok"
    /\ Returned

\* The step that follows branch resolution, whichever way it succeeded: the
\* purge, or for the overlays the generation (which is no command, so the
\* branch command stays the last one when the generation has run).
StandsAfterBranch ==
    IF call.op = "GenerateOverlaysAndPush"
    THEN regen = "none" => pc = "generate"
    ELSE pc = "rm"

\* The name of a command: "rm", "diff", or the first word after git.
Verb(e) ==
    IF e.Command = "rm" THEN "rm" ELSE IF IsDiff(e) THEN "diff" ELSE e.Args[1].word

\* The commands of a call that follow its branch resolution.
LaterSteps ==
    (IF call.op = "GenerateOverlaysAndPush" THEN <<>> ELSE <<"rm">>)
        \o <<"add", "diff", "commit", "push">>

\* The commands executed after the i-th are the first of LaterSteps.
FollowedByLaterSteps(i) ==
    /\ Len(executedCmds) - i <= Len(LaterSteps)
    /\ \A j \in 1 .. (Len(executedCmds) - i) : Verb(executedCmds[i + j]) = LaterSteps[j]

(***************************************************************************)
(* C2.  Branch resolution: `git checkout -b <branch>` is executed exactly  *)
(* once when `git switch <branch>` failed, right after it, and never when  *)
(* it succeeded; after a successful checkout -b the call stands where it   *)
(* stands after a successful switch (the purge, or the overlay generation),*)
(* and when checkout -b fails too the call ends there with an error that   *)
(* names the branch and the repository directory.                          *)
(***************************************************************************)
C2_BranchResolution ==
    /\ Count(IsCheckout) <= 1
    /\ Count(IsSwitch) <= 1
    /\ \A i \in Cmds :
         LET e == executedCmds[i]
             last == i = Len(executedCmds)
         IN  /\ IsSwitch(e) /\ cmdResults[i] = "ok" =>
                  /\ ~Ran(IsCheckout)
                  /\ last => StandsAfterBranch
             /\ IsSwitch(e) /\ cmdResults[i] = "err" =>
                  IF last THEN pc = "checkout"
                  ELSE /\ IsCheckout(executedCmds[i + 1])
                       /\ executedCmds[i + 1].Args[3] = e.Args[2]
                       /\ executedCmds[i + 1].BaseDir = e.BaseDir
             /\ IsCheckout(e) =>
                  /\ i > 1
                  /\ IsSwitch(executedCmds[i - 1])
                  /\ cmdResults[i - 1] = "err"
             /\ IsCheckout(e) /\ cmdResults[i] = "ok" /\ last => StandsAfterBranch
             /\ (IsSwitch(e) \/ IsCheckout(e)) /\ cmdResults[i] = "ok" =>
                  FollowedByLaterSteps(i)
             /\ IsCheckout(e) /\ cmdResults[i] = "err" =>
                  /\ last
                  /\ ReturnedError
                  /\ ErrorNames(e.Args[3])
                  /\ ErrorNames(e.BaseDir)

C2_Witness ==
    \E i \in Cmds : /\ IsCheckout(executedCmds[i])
                    /\ cmdResults[i] = "ok"
                    /\ Ran(IsPush)
                    /\ ReturnedNil

(***************************************************************************)
(* C3.  No retry: when a command other than `git switch` returns an error, *)
(* the call returns a non-nil error, that command is the last one the call *)
(* executed, and no command is executed twice in one call.                 *)
(***************************************************************************)
C3_FailureIsTerminal ==
    /\ \A i \in Cmds :
         cmdResults[i] = "err" /\ ~IsSwitch(executedCmds[i]) =>
             /\ i = Len(executedCmds)
             /\ ReturnedError
    /\ \A i, j \in Cmds : i # j => executedCmds[i] # executedCmds[j]

C3_Witness ==
    /\ Len(executedCmds) > 0
    /\ IsCommit(executedCmds[Len(executedCmds)])
    /\ cmdResults[Len(executedCmds)] = "err"
    /\ call.op = "RemoveAndPush"

(***************************************************************************)
(* C4.  No returned error contains the credential token of the remote URL. *)
(* The driver prints the remote as it was given in the push-failure error, *)
(* so this statement fails on the code.                                    *)
(***************************************************************************)
C4_NoTokenInError ==
    ReturnedError =>
        \A k \in DOMAIN ErrorText(ret) : ErrorText(ret)[k] # call.remote.token

AllSucceeded == \A i \in Cmds : cmdResults[i] = "ok"

C5_RepoDir == [abs |-> TRUE, segs |-> call.outputPath.segs \o call.componentName.segs]

C5_Expected ==
    << [BaseDir |-> call.outputPath, Command |-> "git",
        Args |-> <<Word("clone"), call.remote, call.componentName>>],
       [BaseDir |-> C5_RepoDir, Command |-> "git",
        Args |-> <<Word("switch"), call.branch>>],
       [BaseDir |-> C5_RepoDir, Command |-> "rm",
        Args |-> <<Word("-rf"),
                   Rel(<<"components">> \o call.componentName.segs \o <<"base">>)>>],
       [BaseDir |-> C5_RepoDir, Command |-> "git",
        Args |-> <<Word("add"), Word(".")>>],
       [BaseDir |-> C5_RepoDir, Command |-> "git",
        Args |-> <<Word("--no-pager"), Word("diff"), Word("--cached")>>],
       [BaseDir |-> C5_RepoDir, Command |-> "git",
        Args |-> <<Word("commit"), Word("-m"),
                   [fmt |-> "Generate GitOps base resources for component %s",
                    args |-> <<call.componentName>>]>>],
       [BaseDir |-> C5_RepoDir, Command |-> "git",
        Args |-> <<Word("push"), Word("origin"), call.branch>>] >>

C5_FullRun ==
    /\ call.op = "CloneGenerateAndPush"
    /\ call.doPush
    /\ Returned
    /\ AllSucceeded
    /\ diffOut \notin {"", NoOutput}

(***************************************************************************)
(* C5.  A CloneGenerateAndPush call with doPush set in which every command *)
(* succeeds and the diff output is not empty executes exactly: git clone   *)
(* <remote> <component> in outputPath, then in the repository directory    *)
(* git switch <branch>, rm -rf components/<component>/base, git add .,     *)
(* git --no-pager diff --cached, git commit -m "Generate GitOps base       *)
(* resources for component <component>", git push origin <branch>; the     *)
(* regeneration has run after the purge and before the add.                *)
(***************************************************************************)
C5_CommandSequence ==
    /\ C5_FullRun => executedCmds = C5_Expected /\ ReturnedNil
    /\ call.op = "CloneGenerateAndPush" =>
          /\ regen # "none" => Ran(IsRm)
          /\ Ran(IsAdd) => regen = "ok"

C5_Witness == C5_FullRun /\ call.context = Rel(<<"gitops">>)

(***************************************************************************)
(* C6.  When the regeneration fails inside a sync call, the call returns   *)
(* an error and no git add, diff, commit or push is executed in it.        *)
(***************************************************************************)
C6_RegenerationFailureAborts ==
    regen = "err" => /\ ReturnedError
                     /\ ~Ran(IsAdd)
                     /\ ~Ran(IsDiff)
                     /\ ~Ran(IsCommit)
                     /\ ~Ran(IsPush)

C6_Witness ==
    /\ regen = "err"
    /\ call.op = "CloneGenerateAndPush"
    /\ call.doPush
    /\ Ran(IsRm)

\* <repo>/<context>/components/<component>/base of the running call.
BaseDirOfCall ==
    Join(<<call.outputPath, call.componentName, call.context, Rel(<<"components">>),
           call.componentName, Rel(<<"base">>)>>)

\* The directory the i-th command, an rm -rf, deletes.
RmTarget(i) == Resolve(executedCmds[i].BaseDir, executedCmds[i].Args[2])

(***************************************************************************)
(* C7.  In CloneGenerateAndPush, for every context, the directory the      *)
(* purge removes is the directory into which Generate then writes the base *)
(* manifests, <repo>/<context>/components/<component>/base.  The purge     *)
(* leaves the context out, so this statement fails on the code.            *)
(***************************************************************************)
C7_PurgeIsGenerateDir ==
    call.op = "CloneGenerateAndPush" =>
        \A i \in Cmds :
            IsRm(executedCmds[i]) =>
                /\ RmTarget(i) = BaseDirOfCall
                /\ regen = "ok" => File(RmTarget(i), "deployment.yaml") \in disk

(***************************************************************************)
(* C8.  After a successful CloneGenerateAndPush the component's base       *)
(* directory holds only the files this call wrote: no manifest of an       *)
(* earlier run survives.  Stated for the contexts that name a directory of *)
(* the repository; it fails on the code because of the purge of C7.        *)
(***************************************************************************)
C8_NoStaleManifest ==
    /\ call.op = "CloneGenerateAndPush"
    /\ ReturnedNil
    /\ IsUnder(BaseDirOfCall, C5_RepoDir)
    => FilesUnder(disk, BaseDirOfCall)
         = {File(BaseDirOfCall, n) : n \in GeneratedFiles(call.targetPort)}

\* The directory the call's `git clone` (its first command) created.
ClonedRepo == Resolve(executedCmds[1].BaseDir, executedCmds[1].Args[3])

NamesComponentDir(target, repo) ==
    \E k \in (Len(repo.segs) + 1) .. (Len(target.segs) - 1) :
        /\ target.segs[k] = "components"
        /\ <<target.segs[k + 1]>> = call.componentName.segs

(***************************************************************************)
(* C9.  Every rm -rf of CloneGenerateAndPush and RemoveAndPush targets a   *)
(* path strictly below the cloned repository, in a components/<component>  *)
(* directory of it, for every component name and every context.  The       *)
(* context is joined unchecked, so this statement fails on the code.       *)
(***************************************************************************)
C9_PurgeInsideRepository ==
    \A i \in Cmds :
        IsRm(executedCmds[i]) =>
            /\ IsClone(executedCmds[1])
            /\ IsStrictlyUnder(RmTarget(i), ClonedRepo)
            /\ NamesComponentDir(RmTarget(i), ClonedRepo)

(***************************************************************************)
(* C10.  As claimed: GenerateOverlaysAndPush wipes the overlay subtree     *)
(* with rm -rf before it invokes the Overlay Generator.                    *)
(***************************************************************************)
C10_OverlaysPurgedFirst ==
    call.op = "GenerateOverlaysAndPush" /\ regen # "none" => Ran(IsRm)

(***************************************************************************)
(* C10, amended.  GenerateOverlaysAndPush executes no rm -rf at all: with  *)
(* clone set it clones and resolves the branch as the base generation call *)
(* does, then invokes the Overlay Generator on the tree as cloned, and the *)
(* next command after branch resolution is git add.                        *)
(***************************************************************************)
C10_OverlaysNotPurged ==
    call.op = "GenerateOverlaysAndPush" =>
        /\ ~Ran(IsRm)
        /\ \A i \in Cmds :
             IsAdd(executedCmds[i]) =>
                 /\ regen = "ok"
                 /\ IF call.clone
                    THEN /\ IsClone(executedCmds[1])
                         /\ IsSwitch(executedCmds[2])
                         /\ \/ i = 3 /\ cmdResults[2] = "ok"
                            \/ /\ i = 4
                               /\ IsCheckout(executedCmds[3])
                               /\ cmdResults[3] = "ok"
                    ELSE i = 1
        /\ call.clone /\ regen # "none" =>
             /\ Len(executedCmds) >= 2
             /\ IsClone(executedCmds[1])
             /\ IsSwitch(executedCmds[2])

C10_Witness ==
    /\ call.op = "GenerateOverlaysAndPush"
    /\ call.clone
    /\ regen = "ok"
    /\ Ran(IsPush)
    /\ ReturnedNil

(***************************************************************************)
(* The Kustomization type (package resources).                             *)
(*                                                                         *)
(* A Go string is the sequence of its bytes, each written here as a        *)
(* one-character string; sort.Strings orders strings by their bytes.       *)
(***************************************************************************)
LowerCase ==
    <<"a", "b", "c", "d", "e", "f", "g", "h", "i", "j", "k", "l", "m",
      "n", "o", "p", "q", "r", "s", "t", "u", "v", "w", "x", "y", "z">>

\* The byte (ASCII code) of a character of a file name.
Byte(c) ==
    CASE c = "-" -> 45
      [] c = "." -> 46
      [] c = "1" -> 49
      [] c = "_" -> 95
      [] OTHER -> 96 + CHOOSE i \in DOMAIN LowerCase : LowerCase[i] = c

\* Go's a < b on strings: the first differing byte decides, a proper prefix
\* is smaller.
RECURSIVE StringLess(_, _)
StringLess(a, b) ==
    IF b = <<>> THEN FALSE
    ELSE IF a = <<>> THEN TRUE
    ELSE IF Byte(Head(a)) # Byte(Head(b)) THEN Byte(Head(a)) < Byte(Head(b))
    ELSE StringLess(Tail(a), Tail(b))

\* One insertion of sort.Strings: v goes before the first larger element.
RECURSIVE insertSorted(_, _)
insertSorted(v, sorted) ==
    IF sorted = <<>> THEN <<v>>
    ELSE IF StringLess(v, Head(sorted)) THEN <<v>> \o sorted
    ELSE <<Head(sorted)>> \o insertSorted(v, Tail(sorted))

\* sort.Strings(s): s in increasing order, every element kept.
RECURSIVE SortStrings(_)
SortStrings(s) ==
    IF s = <<>> THEN <<>> ELSE insertSorted(Head(s), SortStrings(Tail(s)))

\* The loop of removeDuplicatesAndSort: out collects the first occurrence of
\* every value of s, exists the values seen so far.
RECURSIVE firstOccurrences(_, _, _)
firstOccurrences(s, exists, out) ==
    IF s = <<>> THEN out
    ELSE IF Head(s) \notin exists
         THEN firstOccurrences(Tail(s), exists \cup {Head(s)}, Append(out, Head(s)))
         ELSE firstOccurrences(Tail(s), exists, out)

removeDuplicatesOnly(s) == firstOccurrences(s, {}, <<>>)

sortOnly(s) == SortStrings(s)

removeDuplicatesAndSort(s) == SortStrings(firstOccurrences(s, {}, <<>>))

\* Patch{Path: file}
Patch(file) == [Path |-> file]

\* getPatchFiles: the paths of the patches, in order.
getPatchFiles(patches) == [i \in DOMAIN patches |-> patches[i].Path]

\* addFilestoPatches: one Patch per file, in order.
addFilestoPatches(files) == [i \in DOMAIN files |-> Patch(files[i])]

\* k.AddResources(s...)
AddResources(kk, s) ==
    [kk EXCEPT !.Resources = removeDuplicatesAndSort(kk.Resources \o s)]

\* k.AddBases(s...)
AddBases(kk, s) == [kk EXCEPT !.Bases = removeDuplicatesAndSort(kk.Bases \o s)]

\* k.AddPatches(s...)
AddPatches(kk, s) ==
    LET files == removeDuplicatesAndSort(getPatchFiles(kk.Patches) \o s)
    IN  [kk EXCEPT !.Patches = addFilestoPatches(files)]

\* The second loop of CompareDifferenceAndAddCustomPatches: the generated
\* elements that are no key of originalPatches, in the order of generated.
RECURSIVE newGeneratedFiles(_, _, _)
newGeneratedFiles(generated, originalPatches, out) ==
    IF generated = <<>> THEN out
    ELSE IF Head(generated) \notin originalPatches
         THEN newGeneratedFiles(Tail(generated), originalPatches,
                                Append(out, Head(generated)))
         ELSE newGeneratedFiles(Tail(generated), originalPatches, out)

CompareDifferenceSorted(kk, original, generated) ==
    LET files == removeDuplicatesAndSort(generated \o getPatchFiles(original))
    IN  [kk EXCEPT !.Patches = addFilestoPatches(files)]

CompareDifferenceOriginalFirst(kk, original, generated) ==
    LET originalPatches == {original[i].Path : i \in DOMAIN original}
        newFiles == newGeneratedFiles(generated, originalPatches, <<>>)
    IN  [kk EXCEPT !.Patches = addFilestoPatches(getPatchFiles(original) \o newFiles)]

\* Mutant: every generated entry is put first, whether the original list
\* holds it or not.
CompareDifferenceAllGenerated(kk, original, generated) ==
    LET newPatchesList == generated \o getPatchFiles(original)
    IN  [kk EXCEPT !.Patches = addFilestoPatches(newPatchesList)]

\* k.CompareDifferenceAndAddCustomPatches(original, generated)
CompareDifferenceAndAddCustomPatches(kk, original, generated) ==
    LET originalPatches == {original[i].Path : i \in DOMAIN original}
        newFiles == newGeneratedFiles(generated, originalPatches, <<>>)
        newPatchesList == newFiles \o getPatchFiles(original)
    IN  [kk EXCEPT !.Patches = addFilestoPatches(newPatchesList)]

(***************************************************************************)
(* The specifications of the type.  A Kustomization is read from a file    *)
(* that may hold any lists (unsorted, with repetitions), then its          *)
(* operations are called in any order with any arguments:                  *)
(* SpecResources calls the operations on the resources and bases lists,    *)
(* SpecPatches those on the patches list.                                  *)
(***************************************************************************)
\* The longest list read from the file or handed to one call.
MaxLen == 2

\* The file names the lists are made of, one a prefix of another.
Files == {<<"a">>, <<"a", "b">>, <<"b">>}

\* The lists over S of at most n elements.
ListsUpTo(S, n) == UNION {[1 .. m -> S] : m \in 0 .. n}

Lists == ListsUpTo(Files, MaxLen)

Range(s) == {s[i] : i \in DOMAIN s}

\* yaml.Unmarshal of the file into a Kustomization: the lists as written.
ReadKustomization(resources, bases, patches) ==
    [APIVersion |-> "", Kind |-> "", Resources |-> resources, Bases |-> bases,
     Patches |-> addFilestoPatches(patches)]

\* What history keeps of the calls on the resources and bases lists: the
\* last operation, the list it found, and every path each list held at the
\* start or was given since.
Added(op, before, resources, bases) ==
    [op |-> op, before |-> before, resources |-> resources, bases |-> bases]

\* What history keeps of the calls on the patches list: the last operation
\* and the arguments of the merge.
Merged(op, original, generated) ==
    [op |-> op, original |-> original, generated |-> generated]

InitResources ==
    /\ DriverIdle
    /\ NoCaller
    /\ CreatedBy = DefaultCreatedBy
    /\ folder = EmptyFolder
    /\ \E resources \in Lists, bases \in Lists :
          /\ kust = ReadKustomization(resources, bases, <<>>)
          /\ history = Added("read", <<>>, Range(resources), Range(bases))

CallAddResources ==
    /\ \E s \in Lists :
          /\ kust' = AddResources(kust, s)
          /\ history' = Added("AddResources", kust.Resources,
                              history.resources \cup Range(s), history.bases)
    /\ UNCHANGED <<driverVars, folder, CreatedBy>>

CallAddBases ==
    /\ \E s \in Lists :
          /\ kust' = AddBases(kust, s)
          /\ history' = Added("AddBases", kust.Bases,
                              history.resources, history.bases \cup Range(s))
    /\ UNCHANGED <<driverVars, folder, CreatedBy>>

NextResources == CallAddResources \/ CallAddBases

SpecResources == InitResources /\ [][NextResources]_vars

InitPatches ==
    /\ DriverIdle
    /\ NoCaller
    /\ CreatedBy = DefaultCreatedBy
    /\ folder = EmptyFolder
    /\ \E patches \in Lists : kust = ReadKustomization(<<>>, <<>>, patches)
    /\ history = Merged("read", <<>>, <<>>)

CallAddPatches ==
    /\ \E s \in Lists : kust' = AddPatches(kust, s)
    /\ history' = Merged("AddPatches", <<>>, <<>>)
    /\ UNCHANGED <<driverVars, folder, CreatedBy>>

CallCompareDifferenceAndAddCustomPatches ==
    /\ \E original \in Lists, generated \in Lists :
          /\ kust' = CompareDifferenceAndAddCustomPatches(
                        kust, addFilestoPatches(original), generated)
          /\ history' = Merged("CompareDifferenceAndAddCustomPatches",
                               original, generated)
    /\ UNCHANGED <<driverVars, folder, CreatedBy>>

NextPatches == CallAddPatches \/ CallCompareDifferenceAndAddCustomPatches

SpecPatches == InitPatches /\ [][NextPatches]_vars

(***************************************************************************)
(* The Overlay Generator.                                                  *)
(*                                                                         *)
(* GenerateOverlays writes the deployment patch of one component into the  *)
(* output folder and reconciles the folder's kustomization.yaml.  A file   *)
(* of the folder holds a Kustomization, a document, a list of documents,   *)
(* or text that does not parse as the type the reader wants.               *)
(***************************************************************************)
Yaml == <<".", "y", "a", "m", "l">>

kustomizeFileName ==
    <<"k", "u", "s", "t", "o", "m", "i", "z", "a", "t", "i", "o", "n">> \o Yaml

deploymentPatchFileName ==
    <<"d", "e", "p", "l", "o", "y", "m", "e", "n", "t", "-", "p", "a", "t", "c", "h">>
       \o Yaml

\* A patch this tool generated earlier, and one an operator added by hand.
patch1 == <<"p", "a", "t", "c", "h", "1">> \o Yaml

customPatch1 ==
    <<"c", "u", "s", "t", "o", "m", "-", "p", "a", "t", "c", "h", "1">> \o Yaml

PatchNames == {deploymentPatchFileName, patch1, customPatch1}

KustomizationFile(kk) == [holds |-> "Kustomization", value |-> kk]

\* A file whose resources key is a number.
MalformedFile == [holds |-> "malformed"]

DocumentFile(doc) == [holds |-> "document", value |-> doc]

\* The strategic-merge patch of the component's Deployment.
deploymentPatch == [kind |-> "Deployment", patch |-> TRUE]

NoError == "<nil>"

Exists(fld, name) == name \in DOMAIN fld

\* The folder with content written to the file name.
WriteFile(fld, name, content) ==
    [n \in DOMAIN fld \cup {name} |-> IF n = name THEN content ELSE fld[n]]

\* The patch paths of the folder's kustomization.yaml; none without a file
\* that parses.
PatchesOf(fld) ==
    IF Exists(fld, kustomizeFileName)
          /\ fld[kustomizeFileName].holds = "Kustomization"
    THEN getPatchFiles(fld[kustomizeFileName].value.Patches)
    ELSE <<>>

\* Mutant: a file that does not parse is read as a Kustomization without
\* entries.
UnmarshalLenient(file) ==
    [err |-> NoError,
     value |-> IF file.holds = "Kustomization" THEN file.value
               ELSE ZeroKustomization]

\* yaml.Unmarshal of a kustomization.yaml into a Kustomization: the value
\* the file holds, or an error for a file of another shape.
Unmarshal(file) ==
    IF file.holds = "Kustomization" THEN [err |-> NoError, value |-> file.value]
    ELSE [err |-> "failed to unmarshal data", value |-> ZeroKustomization]

\* Mutant: the Kustomization is written without apiVersion and kind.
KustomizationWithoutTypeMeta == ZeroKustomization

\* The Kustomization value GenerateOverlays starts from.
NewKustomization ==
    [ZeroKustomization EXCEPT !.APIVersion = "kustomize.config.k8s.io/v1beta1",
                              !.Kind = "Kustomization"]

\* The freshly generated patch list: the component's patch file name, then
\* the names componentGeneratedResources records for the component.
GeneratedPatches(recorded) == <<deploymentPatchFileName>> \o recorded

\* GenerateOverlays(fs, gitOpsFolder, outputFolder, options, imageName,
\* namespace, componentGeneratedResources) on the folder fld: the error it
\* returns and the folder it leaves.  readOnly: fs refuses writes; base: the
\* base deployment file exists; recorded: componentGeneratedResources of the
\* component.
GenerateOverlaysIn(fld, readOnly, base, recorded) ==
    IF ~base THEN [err |-> "failed to read base deployment", folder |-> fld]
    ELSE IF readOnly THEN [err |-> GenerateErr, folder |-> fld]
    ELSE LET patched == WriteFile(fld, deploymentPatchFileName,
                                  DocumentFile(deploymentPatch))
             read == IF Exists(fld, kustomizeFileName)
                     THEN Unmarshal(fld[kustomizeFileName])
                     ELSE [err |-> NoError, value |-> ZeroKustomization]
         IN  IF read.err # NoError
             THEN [err |-> read.err, folder |-> patched]
             ELSE LET merged == CompareDifferenceAndAddCustomPatches(
                                   NewKustomization, read.value.Patches,
                                   GeneratedPatches(recorded))
                  IN  [err |-> NoError,
                       folder |-> WriteFile(patched, kustomizeFileName,
                                            KustomizationFile(merged))]

(***************************************************************************)
(* The specification of the Overlay Generator: the output folder starts    *)
(* empty or with a kustomization.yaml written earlier or by hand; then     *)
(* GenerateOverlays is invoked on it any number of times, and between the  *)
(* invocations an operator adds patches to the file by hand.               *)
(***************************************************************************)
RecordedLists == ListsUpTo({deploymentPatchFileName, patch1}, MaxLen)

\* What history keeps of an invocation: the error returned, the patch paths
\* of kustomization.yaml before it and the generated patch list.
Invoked(op, err, before, generated) ==
    [op |-> op, err |-> err, before |-> before, generated |-> generated]

\* s with file put in as element number i + 1.
InsertAt(s, i, file) == SubSeq(s, 1, i) \o <<file>> \o SubSeq(s, i + 1, Len(s))

InitOverlays ==
    /\ DriverIdle
    /\ NoCaller
    /\ CreatedBy = DefaultCreatedBy
    /\ kust = ZeroKustomization
    /\ history = NoOp
    /\ \/ folder = EmptyFolder
       \/ folder = WriteFile(EmptyFolder, kustomizeFileName, MalformedFile)
       \/ \E patches \in ListsUpTo(PatchNames, MaxLen) :
             folder = WriteFile(EmptyFolder, kustomizeFileName,
                                KustomizationFile(
                                   ReadKustomization(<<>>, <<>>, patches)))

CallGenerateOverlays ==
    /\ \E readOnly \in BOOLEAN, base \in BOOLEAN, recorded \in RecordedLists :
          LET result == GenerateOverlaysIn(folder, readOnly, base, recorded)
          IN  /\ folder' = result.folder
              /\ history' = Invoked("GenerateOverlays", result.err,
                                    PatchesOf(folder), GeneratedPatches(recorded))
    /\ UNCHANGED <<driverVars, kust, CreatedBy>>

\* An operator adds a patch the file does not list yet, at any place.
EditByHand ==
    /\ Exists(folder, kustomizeFileName)
    /\ folder[kustomizeFileName].holds = "Kustomization"
    /\ \E file \in PatchNames \ Range(PatchesOf(folder)),
          i \in 0 .. Len(PatchesOf(folder)) :
          LET kk == folder[kustomizeFileName].value
              patches == addFilestoPatches(InsertAt(PatchesOf(folder), i, file))
          IN  folder' = WriteFile(folder, kustomizeFileName,
                                  KustomizationFile([kk EXCEPT !.Patches = patches]))
    /\ history' = Invoked("edit", NoError, <<>>, <<>>)
    /\ UNCHANGED <<driverVars, kust, CreatedBy>>

NextOverlays == CallGenerateOverlays \/ EditByHand

SpecOverlays == InitOverlays /\ [][NextOverlays]_vars

(***************************************************************************)
(* The Resource Classifier and Synthesizer.                                *)
(*                                                                         *)
(* Generate writes the base manifests of one component into the output     *)
(* folder: the first Deployment, Service and Route each to its own file,   *)
(* every other supplied document to one aggregate file, and the            *)
(* kustomization.yaml that lists the manifests.                            *)
(***************************************************************************)
deploymentFileName ==
    <<"d", "e", "p", "l", "o", "y", "m", "e", "n", "t">> \o Yaml

serviceFileName == <<"s", "e", "r", "v", "i", "c", "e">> \o Yaml

routeFileName == <<"r", "o", "u", "t", "e">> \o Yaml

otherFileName ==
    <<"o", "t", "h", "e", "r", "_", "r", "e", "s", "o", "u", "r", "c", "e", "s">>
       \o Yaml

\* A document: supplied in KubernetesResources (number n of its list) or
\* synthesized from the options (n is then the target port).
Document(kind, origin, n) == [kind |-> kind, origin |-> origin, n |-> n]

\* A list of n supplied documents of one kind: deployment1, deployment2, ...
Supplied(kind, n) == [i \in 1 .. n |-> Document(kind, "supplied", i)]

\* The aggregate file: the documents, each followed by a "---" line.
DocumentsFile(docs) == [holds |-> "documents", value |-> docs]

\* gitopsv1alpha1.GeneratorOptions, as far as the file placement reads it.
GeneratorOptions(deployments, services, routes, ingresses, others, targetPort) ==
    [KubernetesResources |->
        [Deployments |-> deployments, Services |-> services, Routes |-> routes,
         Ingresses |-> ingresses, Others |-> others],
     TargetPort |-> targetPort]

generateDeployment(options) ==
    Document("Deployment", "synthesized", options.TargetPort)

generateService(options) == Document("Service", "synthesized", options.TargetPort)

generateRoute(options) == Document("Route", "synthesized", options.TargetPort)

\* The first element of a list as a list of at most one element.
First(s) == IF s = <<>> THEN <<>> ELSE <<Head(s)>>

\* The elements after the first.
Rest(s) == IF s = <<>> THEN <<>> ELSE Tail(s)

\* The document of deployment.yaml: the first supplied Deployment,
\* otherwise the synthesized one.
DeploymentAlwaysSynthesized(options) == <<generateDeployment(options)>>

DeploymentOf(options) ==
    IF options.KubernetesResources.Deployments # <<>>
    THEN First(options.KubernetesResources.Deployments)
    ELSE <<generateDeployment(options)>>

\* The document of service.yaml, if any: the first supplied Service,
\* otherwise the synthesized one if the target port is set.
ServiceWhateverThePort(options) ==
    IF options.KubernetesResources.Services # <<>>
    THEN First(options.KubernetesResources.Services)
    ELSE <<generateService(options)>>

ServiceOf(options) ==
    IF options.KubernetesResources.Services # <<>>
    THEN First(options.KubernetesResources.Services)
    ELSE IF options.TargetPort # 0 THEN <<generateService(options)>> ELSE <<>>

\* The document of route.yaml, if any: as for the Service.
RouteOf(options) ==
    IF options.KubernetesResources.Routes # <<>>
    THEN First(options.KubernetesResources.Routes)
    ELSE IF options.TargetPort # 0 THEN <<generateRoute(options)>> ELSE <<>>

\* The documents of other_resources.yaml: the Others entries, to which the
\* Deployments, Services and Routes after the first and all Ingresses are
\* appended.
OthersLast(options) ==
    LET kr == options.KubernetesResources
    IN  Rest(kr.Deployments) \o Rest(kr.Services) \o Rest(kr.Routes)
           \o kr.Ingresses \o kr.Others

OthersWithFirsts(options) ==
    LET kr == options.KubernetesResources
    IN  kr.Others \o kr.Deployments \o kr.Services \o kr.Routes \o kr.Ingresses

OthersOf(options) ==
    LET kr == options.KubernetesResources
    IN  kr.Others \o Rest(kr.Deployments) \o Rest(kr.Services) \o Rest(kr.Routes)
           \o kr.Ingresses

\* Whether a file is written for a list of documents: none for no document.
Written(docs) == docs # <<>>

\* The folder after one canonical file: its document written under name, if
\* there is one.
WriteDocument(fld, name, docs) ==
    IF Written(docs) THEN WriteFile(fld, name, DocumentFile(Head(docs))) ELSE fld

\* The Kustomization after the file of docs: name added to its resources if
\* the file is written.
ListFile(kk, name, docs) == IF Written(docs) THEN AddResources(kk, <<name>>) ELSE kk

\* Generate(fs, gitOpsFolder, outputFolder, options) on the folder fld: the
\* error it returns, the folder it leaves and the names of the files it
\* wrote.  readOnly: fs refuses writes.
GenerateIn(fld, readOnly, options) ==
    IF readOnly THEN [err |-> GenerateErr, folder |-> fld, written |-> {}]
    ELSE LET deployment == DeploymentOf(options)
             service == ServiceOf(options)
             route == RouteOf(options)
             others == OthersOf(options)
             k1 == ListFile(NewKustomization, deploymentFileName, deployment)
             k2 == ListFile(k1, serviceFileName, service)
             k3 == ListFile(k2, routeFileName, route)
             k4 == ListFile(k3, otherFileName, others)
             f1 == WriteDocument(fld, deploymentFileName, deployment)
             f2 == WriteDocument(f1, serviceFileName, service)
             f3 == WriteDocument(f2, routeFileName, route)
             f4 == IF Written(others)
                   THEN WriteFile(f3, otherFileName, DocumentsFile(others))
                   ELSE f3
             f5 == WriteFile(f4, kustomizeFileName, KustomizationFile(k4))
         IN  [err |-> NoError, folder |-> f5,
              written |-> {kustomizeFileName}
                 \cup (IF Written(deployment) THEN {deploymentFileName} ELSE {})
                 \cup (IF Written(service) THEN {serviceFileName} ELSE {})
                 \cup (IF Written(route) THEN {routeFileName} ELSE {})
                 \cup (IF Written(others) THEN {otherFileName} ELSE {})]

(***************************************************************************)
(* The specification of Generate: it is called on an output folder that    *)
(* is empty, or that still holds the files of an earlier generation, with  *)
(* any options; the folder is removed before the next call, as the sync    *)
(* driver does.                                                            *)
(***************************************************************************)
\* The most documents of one kind in KubernetesResources.
MaxPerKind == 2

SuppliedLists(kind) == {Supplied(kind, n) : n \in 0 .. MaxPerKind}

\* TestGenerate's target port, or none.
GenerateTargetPorts == {0, 1234}

AllOptions ==
    {GeneratorOptions(deployments, services, routes, ingresses, others, targetPort) :
        deployments \in SuppliedLists("Deployment"),
        services \in SuppliedLists("Service"),
        routes \in SuppliedLists("Route"),
        ingresses \in SuppliedLists("Ingress"),
        others \in SuppliedLists("Pod"),
        targetPort \in GenerateTargetPorts}

\* What an earlier generation with two documents of every kind left.
StaleFolder ==
    GenerateIn(EmptyFolder, FALSE,
               GeneratorOptions(Supplied("Deployment", 2), Supplied("Service", 2),
                                Supplied("Route", 2), Supplied("Ingress", 2),
                                Supplied("Pod", 2), 1234)).folder

\* What history keeps of a Generate call: the error returned, the options
\* and the names of the files written.
Generated(err, options, written) ==
    [op |-> "Generate", err |-> err, options |-> options, written |-> written]

InitGenerate ==
    /\ DriverIdle
    /\ NoCaller
    /\ CreatedBy = DefaultCreatedBy
    /\ kust = ZeroKustomization
    /\ history = NoOp
    /\ folder \in {EmptyFolder, StaleFolder}

CallGenerate ==
    /\ history = NoOp
    /\ \E readOnly \in BOOLEAN, options \in AllOptions :
          LET result == GenerateIn(folder, readOnly, options)
          IN  /\ folder' = result.folder
              /\ history' = Generated(result.err, options, result.written)
    /\ UNCHANGED <<driverVars, kust, CreatedBy>>

\* rm -rf of the output folder.
RemoveFolder ==
    /\ history # NoOp
    /\ folder' = EmptyFolder
    /\ history' = NoOp
    /\ UNCHANGED <<driverVars, kust, CreatedBy>>

NextGenerate == CallGenerate \/ RemoveFolder

SpecGenerate == InitGenerate /\ [][NextGenerate]_vars

(***************************************************************************)
(* The synthesized manifests: the Deployment and the Service Generate      *)
(* makes for a component that brings none, and the Deployment patch of     *)
(* GenerateOverlays.  A label map is a function from label keys to values, *)
(* an environment a list of [Name, Value].                                 *)
(***************************************************************************)
InstanceKey == "app.kubernetes.io/instance"

EnvVar(name, value) == [Name |-> name, Value |-> value]

\* gitopsv1alpha1.GeneratorOptions, as far as the synthesis reads it.
Component(name, k8sLabels, targetPort, baseEnvVar, overlayEnvVar) ==
    [Name |-> name, Application |-> "test-application", K8sLabels |-> k8sLabels,
     TargetPort |-> targetPort, BaseEnvVar |-> baseEnvVar,
     OverlayEnvVar |-> overlayEnvVar]

\* The fixed five labels, for a value of created-by.
DefaultLabels(component, createdBy) ==
    ("app.kubernetes.io/name" :> component.Name)
       @@ (InstanceKey :> component.Name)
       @@ ("app.kubernetes.io/part-of" :> component.Application)
       @@ ("app.kubernetes.io/managed-by" :> "kustomize")
       @@ ("app.kubernetes.io/created-by" :> createdBy)

\* The labels of a synthesized object: K8sLabels if the options bring them,
\* otherwise the fixed five with the current CreatedBy.
generateK8sLabels(component) ==
    IF component.K8sLabels # EmptyMap THEN component.K8sLabels
    ELSE DefaultLabels(component, CreatedBy)

\* Mutant: the selector takes the instance label of the object's labels.
matchLabelsOfLabels(component) ==
    InstanceKey :> generateK8sLabels(component)[InstanceKey]

\* The selector labels: the instance label with the component name.
getMatchLabels(component) == InstanceKey :> component.Name

\* The container ports of the synthesized Deployment.
ContainerPorts(component) ==
    IF component.TargetPort # 0 THEN <<component.TargetPort>> ELSE <<>>

\* generateDeployment(component): the object behind deployment.yaml.
DeploymentManifest(component) ==
    [Kind |-> "Deployment", Name |-> component.Name,
     Labels |-> generateK8sLabels(component),
     Selector |-> getMatchLabels(component),
     TemplateLabels |-> getMatchLabels(component),
     ContainerName |-> "container-image",
     Env |-> component.BaseEnvVar,
     Ports |-> ContainerPorts(component)]

\* generateService(component): the object behind service.yaml.
ServiceManifest(component) ==
    [Kind |-> "Service", Name |-> component.Name,
     Labels |-> generateK8sLabels(component),
     Selector |-> getMatchLabels(component),
     Port |-> component.TargetPort, TargetPort |-> component.TargetPort]

\* Whether env holds a variable of that name.
IsPresent(env, name) == \E i \in DOMAIN env : env[i].Name = name

RECURSIVE replaceOrAppend(_, _)
\* Mutant: an overlay variable replaces the container's variable of the same
\* name, and one with a new name is appended.
replaceOrAppend(env, overlay) ==
    IF overlay = <<>> THEN env
    ELSE LET e == Head(overlay)
         IN  replaceOrAppend(
                 IF IsPresent(env, e.Name)
                 THEN [i \in DOMAIN env |-> IF env[i].Name = e.Name THEN e ELSE env[i]]
                 ELSE Append(env, e),
                 Tail(overlay))

RECURSIVE appendMissing(_, _)
\* The container's environment after the overlay variables: one is appended
\* only if the container has no variable of its name yet.
appendMissing(env, overlay) ==
    IF overlay = <<>> THEN env
    ELSE LET e == Head(overlay)
         IN  appendMissing(IF IsPresent(env, e.Name) THEN env ELSE Append(env, e),
                           Tail(overlay))

\* generateDeploymentPatch(component, imageName, containerName, namespace):
\* the object behind deployment-patch.yaml.
generateDeploymentPatch(component, imageName, containerName, namespace) ==
    [Kind |-> "Deployment", Name |-> component.Name, Namespace |-> namespace,
     ContainerName |-> containerName, Image |-> imageName,
     Env |-> appendMissing(component.BaseEnvVar, component.OverlayEnvVar)]

(***************************************************************************)
(* The specification of the synthesis: one of the three functions is       *)
(* applied to any options, in a new process or after a GenerateAndPush.    *)
(***************************************************************************)
\* The most variables in one environment list.
MaxEnv == 2

EnvNames == {"FOO", "FOO2", "FOO3"}

EnvValues == {"BAR", "BAR_ENV"}

EnvVars == {EnvVar(name, value) : name \in EnvNames, value \in EnvValues}

\* The environment lists: no name twice in one list.
EnvLists ==
    {env \in ListsUpTo(EnvVars, MaxEnv) :
        \A i, j \in DOMAIN env : env[i].Name = env[j].Name => i = j}

ComponentNames == {"test-component", "other-component"}

\* TestGenerateDeployment's K8sLabels, which name another instance.
customK8slabels ==
    ("app.kubernetes.io/name" :> "test-component")
       @@ (InstanceKey :> "ComponentCRName")
       @@ ("app.kubernetes.io/part-of" :> "test-application")
       @@ ("app.kubernetes.io/managed-by" :> "kustomize")
       @@ ("app.kubernetes.io/created-by" :> "GitOps Generator Test")

\* The options of the base synthesis.
BaseComponents ==
    {Component(name, k8sLabels, targetPort, baseEnvVar, <<>>) :
        name \in ComponentNames, k8sLabels \in {EmptyMap, customK8slabels},
        targetPort \in TargetPorts, baseEnvVar \in EnvLists}

\* The options of the overlay patch.
OverlayComponents ==
    {Component("test-component", EmptyMap, 0, baseEnvVar, overlayEnvVar) :
        baseEnvVar \in EnvLists, overlayEnvVar \in EnvLists}

\* The createdBy arguments of GenerateAndPush.
CreatedBys == {DefaultCreatedBy, "KAM CLI"}

\* What history keeps of a synthesis: the function, its options and result.
Synthesis(op, component, result) ==
    [op |-> op, component |-> component, result |-> result]

InitSynthesis ==
    /\ DriverIdle
    /\ NoCaller
    /\ GeneratorsIdle

\* No function has been applied yet.
CanSynthesize == history = NoOp \/ history.op = "GenerateAndPush"

\* GenerateAndPush(outputPath, remote, component, e, appFs, branch, doPush,
\* createdBy, commonStorage) with doPush unset: it assigns createdBy to
\* CreatedBy and generates the base manifests.  (With doPush set it goes on
\* to create the remote repository and to push to it; nothing there assigns
\* to CreatedBy.)
CallGenerateAndPush ==
    /\ history = NoOp
    /\ \E createdBy \in CreatedBys, readOnly \in BOOLEAN,
          targetPort \in GenerateTargetPorts :
          LET options == GeneratorOptions(<<>>, <<>>, <<>>, <<>>, <<>>, targetPort)
              result == GenerateIn(folder, readOnly, options)
          IN  /\ CreatedBy' = createdBy
              /\ folder' = result.folder
              /\ history' = [op |-> "GenerateAndPush", err |-> result.err,
                             createdBy |-> createdBy]
    /\ UNCHANGED <<driverVars, kust>>

CallgenerateDeployment ==
    /\ CanSynthesize
    /\ \E component \in BaseComponents :
          history' = Synthesis("generateDeployment", component,
                               DeploymentManifest(component))
    /\ UNCHANGED <<driverVars, kust, folder, CreatedBy>>

CallgenerateService ==
    /\ CanSynthesize
    /\ \E component \in BaseComponents :
          history' = Synthesis("generateService", component,
                               ServiceManifest(component))
    /\ UNCHANGED <<driverVars, kust, folder, CreatedBy>>

CallgenerateDeploymentPatch ==
    /\ CanSynthesize
    /\ \E component \in OverlayComponents :
          history' = Synthesis("generateDeploymentPatch", component,
                               generateDeploymentPatch(component, "image",
                                                       "test-container",
                                                       "test-namespace"))
    /\ UNCHANGED <<driverVars, kust, folder, CreatedBy>>

NextSynthesis ==
    \/ CallGenerateAndPush
    \/ CallgenerateDeployment
    \/ CallgenerateService
    \/ CallgenerateDeploymentPatch

SpecSynthesis == InitSynthesis /\ [][NextSynthesis]_vars

(***************************************************************************)
(* Package util: ValidateRemote and SanitizeErrorMessage.  A string is the *)
(* sequence of its parts: the scheme with its separator, the user          *)
(* information, the "@", the host, the path, and the words around a URL.   *)
(***************************************************************************)
Https == "https://"

At == "@"

TokenMark == "<TOKEN>"

\* The tokens with a provider prefix.
ProviderTokens == {"ghp_fj3492danj924", "ghu_fj3492danj924"}

\* The hosts ValidateRemote accepts.
AllowedHosts == {"github.com", "gitlab.com"}

invalidRemoteMsg == "invalid remote"

\* The remote as the caller writes it: scheme is "https://", "http://" or
\* "" (none: the string then starts with "/"), user is "" for none.
RemoteString(scheme, user, host, path) ==
    (IF scheme = "" THEN <<"/">> ELSE <<scheme>>)
       \o (IF user = "" THEN <<>> ELSE <<user, At>>)
       \o <<host, path>>

\* url.Parse(remote): the scheme and the host of the URL.  A string that
\* starts with "/" is a path: it has neither.
ParseURL(remote) ==
    IF Head(remote) = "/" THEN [Scheme |-> "", Host |-> ""]
    ELSE LET rest == Tail(remote)
             authority == IF Len(rest) >= 2 /\ rest[2] = At
                          THEN SubSeq(rest, 3, Len(rest))
                          ELSE rest
         IN  [Scheme |-> SubSeq(Head(remote), 1, Len(Head(remote)) - 3),
              Host |-> Head(authority)]

\* Mutant: the scheme is not looked at.
ValidateRemoteHostOnly(remote) ==
    IF ParseURL(remote).Host \in AllowedHosts THEN NoError ELSE invalidRemoteMsg

\* ValidateRemote(remote)
ValidateRemote(remote) ==
    LET remoteURL == ParseURL(remote)
    IN  IF remoteURL.Scheme = "https" /\ remoteURL.Host \in AllowedHosts
        THEN NoError
        ELSE invalidRemoteMsg

\* Whether msg starts with a token in the user information of an https URL.
StartsWithToken(msg) ==
    /\ Len(msg) >= 3
    /\ msg[1] = Https
    /\ msg[2] \in ProviderTokens
    /\ msg[3] = At

RECURSIVE replaceAllTokens(_)
\* regexp ReplaceAllString: every match, from left to right.
replaceAllTokens(msg) ==
    IF msg = <<>> THEN <<>>
    ELSE IF StartsWithToken(msg)
         THEN <<Https, TokenMark, At>> \o replaceAllTokens(SubSeq(msg, 4, Len(msg)))
         ELSE <<Head(msg)>> \o replaceAllTokens(Tail(msg))

RECURSIVE replaceFirstToken(_)
\* Mutant: the first match only.
replaceFirstToken(msg) ==
    IF msg = <<>> THEN <<>>
    ELSE IF StartsWithToken(msg)
         THEN <<Https, TokenMark, At>> \o SubSeq(msg, 4, Len(msg))
         ELSE <<Head(msg)>> \o replaceFirstToken(Tail(msg))

\* SanitizeErrorMessage(err): the text of the error it returns.
SanitizeErrorMessage(msg) == replaceAllTokens(msg)

(***************************************************************************)
(* The specification of package util: one of the two functions is applied  *)
(* to any remote or to any message.                                        *)
(***************************************************************************)
\* The most parts of a message.
MaxParts == 6

Schemes == {Https, "http://", ""}

Users == {"", "2340908kjfas", "ghp_2340908kjfas"}

Hosts == {"github.com", "gitlab.com", "xyz.com"}

UrlPaths == {"/org/repo", "/org/repo123.git"}

\* The parts of the messages.
MessageParts == {"failed clone repository ", Https, At} \cup ProviderTokens

Messages == ListsUpTo(MessageParts, MaxParts)

InitUtil ==
    /\ DriverIdle
    /\ NoCaller
    /\ GeneratorsIdle

CallValidateRemote ==
    /\ history = NoOp
    /\ \E scheme \in Schemes, user \in Users, host \in Hosts, path \in UrlPaths :
          history' = [op |-> "ValidateRemote", scheme |-> scheme, user |-> user,
                      host |-> host,
                      err |-> ValidateRemote(RemoteString(scheme, user, host, path))]
    /\ UNCHANGED <<driverVars, kust, folder, CreatedBy>>

CallSanitizeErrorMessage ==
    /\ history = NoOp
    /\ \E msg \in Messages :
          history' = [op |-> "SanitizeErrorMessage", msg |-> msg,
                      result |-> SanitizeErrorMessage(msg)]
    /\ UNCHANGED <<driverVars, kust, folder, CreatedBy>>

NextUtil == CallValidateRemote \/ CallSanitizeErrorMessage

SpecUtil == InitUtil /\ [][NextUtil]_vars

(***************************************************************************)
(* CmdExecutor, the Executor that runs the commands with exec.Command.     *)
(* In its specification executedCmds holds the commands for which a        *)
(* process was started and cmdResults how each of them ended.              *)
(***************************************************************************)
\* exec.Command found no executable of that name.
NotFound(command) ==
    Errorf("exec: %q: executable file not found in $PATH", <<command>>)

\* The process ended with another status than 0.
ExitError == Errorf("exit status 1", <<>>)

\* CmdExecutor.Execute(baseDir, command, args...): the process is made for
\* whatever command it is given.  found: the system has an executable of
\* that name; exit: how the process ends, "ok" or "err".
CmdExecutorExecute(baseDir, command, args, found, exit) ==
    IF ~found THEN [started |-> FALSE, err |-> NotFound(command)]
    ELSE [started |-> TRUE, err |-> IF exit = "ok" THEN Nil ELSE ExitError]

\* The commands handed to the Executor: TestExecute's two and rm.
Commands == {"git", "rm", "cd"}

\* Their arguments.
Arguments == {<<Word("help")>>, <<RootPath>>}

InitExecutor ==
    /\ DriverIdle
    /\ NoCaller
    /\ GeneratorsIdle

CallExecute ==
    /\ Len(executedCmds) < MaxCalls
    /\ \E command \in Commands, args \in Arguments, found \in BOOLEAN,
          exit \in {"ok", "err"} :
          LET execution == Execution(OutputPath, command, args)
              result == CmdExecutorExecute(OutputPath, command, args, found, exit)
          IN  /\ IF result.started
                 THEN Executed(execution, exit)
                 ELSE UNCHANGED <<executedCmds, cmdResults>>
              /\ history' = [op |-> "Execute", execution |-> execution,
                             started |-> result.started, err |-> result.err]
    /\ UNCHANGED <<call, pc, ret, diffOut, regen, disk, remoteFiles, calls,
                   componentGeneratedResources, scmCalls, kust, folder, CreatedBy>>

NextExecutor == CallExecute

SpecExecutor == InitExecutor /\ [][NextExecutor]_vars

(***************************************************************************)
(* GenerateAndPush: generates the manifests of a component into a new      *)
(* directory, creates the repository on the hosting service and pushes     *)
(* the directory as the first commit of the repository.                    *)
(***************************************************************************)
\* repoPath := filepath.Join(outputPath, component.Spec.Application); it is
\* the gitops folder too.
NewRepoPath(c) == Join(<<c.outputPath, c.applicationName>>)

\* componentPath := filepath.Join(gitopsFolder, "components", componentName, "base")
NewComponentPath(c) ==
    Join(<<NewRepoPath(c), Components, c.componentName, Rel(<<"base">>)>>)

\* component.Spec.Source.GitSource.URL: /<org>/<repoName>.git on the host.
gitOpsRepoURL == Word("https://github.com/testing/testing.git")

org == Word("testing")

repoName == Word("testing")

\* currentUser.Login: the owner of the token is the organisation or not.
Logins == {"testing", "kam-user"}

\* Namespace of the RepositoryInput: cleared for the user's own account.
Namespace(login) == IF login = org.word THEN Word("") ELSE org

ScmCall(api, result, login) == [api |-> api, result |-> result, login |-> login]

\* currentUser of this call, once Users.Find has returned it.
currentUser == scmCalls[Len(scmCalls)].login

\* The calls on the client, in order; each is made when the one before it
\* has succeeded.
ScmSteps == <<"factory.FromRepoURL", "Users.Find", "Repositories.Create">>

ScmErr == "Unauthorized"

\* The error GenerateAndPush returns when the call number i on the client
\* fails; found: Repositories.Find has found the repository.
ScmError(i, login, found) ==
    CASE i = 1 -> Errorf("failed to create a client to access %q: %w",
                         <<gitOpsRepoURL, Word(ScmErr)>>)
      [] i = 2 -> Errorf("failed to get the user with their auth token: %w",
                         <<Word(ScmErr)>>)
      [] i = 3 /\ found ->
                  Errorf("failed to create repository, repo already exists", <<>>)
      [] OTHER -> Errorf("failed to create repository %q in namespace %q: %w",
                         <<repoName, Namespace(login), Word(ScmErr)>>)

\* The commands on the new directory, in order, all run in repoPath.
NewRepoSteps == <<"init", "add all", "commit all", "branch", "remote add", "push upstream">>

NewRepoCmds(c) ==
    << Execution(NewRepoPath(c), "git", <<Word("init"), Word(".")>>),
       Execution(NewRepoPath(c), "git", <<Word("add"), Word(".")>>),
       Execution(NewRepoPath(c), "git",
                 <<Word("commit"), Word("-m"),
                   [fmt |-> "Generate GitOps resources", args |-> <<>>]>>),
       Execution(NewRepoPath(c), "git", <<Word("branch"), Word("-m"), c.branch>>),
       Execution(NewRepoPath(c), "git",
                 <<Word("remote"), Word("add"), Word("origin"), c.remote>>),
       Execution(NewRepoPath(c), "git",
                 <<Word("push"), Word("-u"), Word("origin"), c.branch>>) >>

NewRepoErrors(c, out) ==
    << Errorf("failed to initialize git repository in %q %q: %s",
              <<NewRepoPath(c), Word(out), Word(ExecError)>>),
       Errorf("failed to add components to repository in %q %q: %s",
              <<NewRepoPath(c), Word(out), Word(ExecError)>>),
       Errorf("failed to commit files to repository in %q %q: %s",
              <<NewRepoPath(c), Word(out), Word(ExecError)>>),
       Errorf("failed to switch to branch %q in repository in %q %q: %s",
              <<c.branch, NewRepoPath(c), Word(out), Word(ExecError)>>),
       Errorf("failed to add files for component %q, to remote 'origin' %q to repository in %q %q: %s",
              <<c.componentName, c.remote, NewRepoPath(c), Word(out), Word(ExecError)>>),
       Errorf("failed push remote to repository %q %q: %s",
              <<c.remote, Word(out), Word(ExecError)>>) >>

\* GenerateAndPush is called: CreatedBy = createdBy comes first.
StartGenerateAndPush ==
    /\ CanStart
    /\ \E token \in Tokens, doPush \in BOOLEAN, port \in TargetPorts,
          createdBy \in CreatedBys :
          /\ call' = Call("GenerateAndPush", token, EmptyPath, doPush, FALSE, port,
                          EmptyPath)
          /\ CreatedBy' = createdBy
    /\ calls' = calls + 1
    /\ pc' = "generate new"
    /\ ret' = Pending
    /\ executedCmds' = <<>>
    /\ cmdResults' = <<>>
    /\ diffOut' = NoOutput
    /\ regen' = "none"
    /\ disk' \in {disk, {}}
    /\ scmCalls' = <<>>
    /\ UNCHANGED <<remoteFiles, componentGeneratedResources, kust, folder, history>>

\* Mutant: without doPush the repository is created all the same.
AfterGenerateNewAlwaysCreate(c) == Goto("url.Parse")

\* if doPush { u, err := url.Parse(gitOpsRepoURL) ... }; return nil
AfterGenerateNew(c) == IF c.doPush THEN Goto("url.Parse") ELSE Return(Nil)

\* Generate(appFs, gitopsFolder, componentPath, component)
GenerateNew ==
    /\ pc = "generate new"
    /\ \/ /\ disk' = disk \cup {File(NewComponentPath(call), n) :
                                   n \in GeneratedFiles(call.targetPort)}
          /\ regen' = "ok"
          /\ AfterGenerateNew(call)
       \/ /\ disk' = disk
          /\ regen' = "err"
          /\ Return(Errorf("failed to generate the gitops resources in %q for component %q: %s",
                           <<NewComponentPath(call), call.componentName,
                             Word(GenerateErr)>>))
    /\ UNCHANGED <<call, executedCmds, cmdResults, diffOut, remoteFiles, calls,
                   componentGeneratedResources, scmCalls, generatorVars>>

\* u, err := url.Parse(gitOpsRepoURL)
ParseRepoURL ==
    /\ pc = "url.Parse"
    /\ \/ Goto(ScmSteps[1])
       \/ Return(Errorf("failed to parse GitOps repo URL %q: %w",
                        <<gitOpsRepoURL, Word("invalid URL")>>))
    /\ UNCHANGED <<call, executedCmds, cmdResults, diffOut, regen, disk, remoteFiles,
                   calls, componentGeneratedResources, scmCalls, generatorVars>>

\* Mutant: the error of a call on the client is dropped.
AfterScmErrorGoOn(i, login, found) ==
    Goto(IF i < Len(ScmSteps) THEN ScmSteps[i + 1] ELSE NewRepoSteps[1])

\* if err != nil { return fmt.Errorf(...) }
AfterScmError(i, login, found) == Return(ScmError(i, login, found))

\* factory.FromRepoURL, client.Users.Find, client.Repositories.Create; when
\* the creation fails, client.Repositories.Find tells whether the
\* repository is there already.
ScmStep ==
    /\ \E i \in DOMAIN ScmSteps :
          /\ pc = ScmSteps[i]
          /\ \E login \in (IF i = 2 THEN Logins ELSE {IF i = 1 THEN "" ELSE currentUser}) :
                \/ /\ scmCalls' = Append(scmCalls, ScmCall(ScmSteps[i], "ok", login))
                   /\ Goto(IF i < Len(ScmSteps) THEN ScmSteps[i + 1]
                           ELSE NewRepoSteps[1])
                \/ /\ i < 3
                   /\ scmCalls' = Append(scmCalls, ScmCall(ScmSteps[i], "err", ""))
                   /\ AfterScmError(i, "", FALSE)
                \/ /\ i = 3
                   /\ \E found \in BOOLEAN :
                         /\ scmCalls' =
                               scmCalls \o
                                  << ScmCall(ScmSteps[i], "err", login),
                                     ScmCall("Repositories.Find",
                                             IF found THEN "ok" ELSE "err", login) >>
                         /\ AfterScmError(i, login, found)
    /\ UNCHANGED <<call, executedCmds, cmdResults, diffOut, regen, disk, remoteFiles,
                   calls, componentGeneratedResources, generatorVars>>

\* git init ., git add ., git commit -m, git branch -m, git remote add
\* origin, git push -u origin: each returns its error, the last one hands
\* the directory to the remote.
NewRepoStep ==
    /\ \E i \in DOMAIN NewRepoSteps :
          /\ pc = NewRepoSteps[i]
          /\ \/ /\ Executed(NewRepoCmds(call)[i], "ok")
                /\ IF i < Len(NewRepoSteps)
                   THEN Goto(NewRepoSteps[i + 1]) /\ remoteFiles' = remoteFiles
                   ELSE /\ Return(Nil)
                        /\ remoteFiles' = PushedTree(disk, NewRepoPath(call))
             \/ \E out \in Outputs :
                /\ Executed(NewRepoCmds(call)[i], "err")
                /\ Return(NewRepoErrors(call, out)[i])
                /\ remoteFiles' = remoteFiles
    /\ UNCHANGED <<call, diffOut, regen, disk, calls, componentGeneratedResources,
                   scmCalls, generatorVars>>

\* The driver with all five functions; the caller hands an empty map to the
\* overlays.
InitPush == DriverIdle /\ GeneratorsIdle /\ NoCaller

NextPush ==
    \/ Next
    \/ StartGenerateAndPush
    \/ GenerateNew
    \/ ParseRepoURL
    \/ ScmStep
    \/ NewRepoStep

SpecPush == InitPush /\ [][NextPush]_vars

(***************************************************************************)
(* Reading the Kustomization and the record of the calls on it.            *)
(***************************************************************************)
PatchPaths == getPatchFiles(kust.Patches)

JustCalled(op) == history.op = op

JustMerged == JustCalled("CompareDifferenceAndAddCustomPatches")

\* The elements of s that are not in S, in the order of s.
Without(s, S) == SelectSeq(s, LAMBDA f : f \notin S)

FileA == <<"a">>

FileB == <<"a", "b">>

FileC == <<"b">>

(***************************************************************************)
(* C11  After CompareDifferenceAndAddCustomPatches(original, generated)    *)
(* the patches are the generated entries that do not occur in original,    *)
(* in their generated order, followed by all original entries in their     *)
(* original order; original [A, B] and generated [B, C] give [C, A, B].    *)
(***************************************************************************)
C11_PatchMerge ==
    JustMerged =>
       /\ PatchPaths = Without(history.generated, Range(history.original))
                          \o history.original
       /\ history.original = <<FileA, FileB>> /\ history.generated = <<FileB, FileC>>
             => PatchPaths = <<FileC, FileA, FileB>>

C11_Witness ==
    /\ JustMerged
    /\ history.original = <<FileA, FileB>>
    /\ history.generated = <<FileB, FileC>>
    /\ PatchPaths = <<FileC, FileA, FileB>>

\* a is b with some elements left out.
RECURSIVE IsSubsequence(_, _)
IsSubsequence(a, b) ==
    IF a = <<>> THEN TRUE
    ELSE IF b = <<>> THEN FALSE
    ELSE IF Head(a) = Head(b) THEN IsSubsequence(Tail(a), Tail(b))
    ELSE IsSubsequence(a, Tail(b))

JustInvoked == JustCalled("GenerateOverlays")

(***************************************************************************)
(* C12  After every GenerateOverlays invocation on an output folder, in    *)
(* any sequence of invocations and edits by hand, every patch entry that   *)
(* kustomization.yaml held before the invocation is still in it, and       *)
(* those entries are in the order they had before.                         *)
(***************************************************************************)
C12_PatchesPreserved ==
    JustInvoked => IsSubsequence(history.before, PatchesOf(folder))

C12_Witness ==
    /\ JustInvoked
    /\ history.err = NoError
    /\ Len(history.before) >= 2
    /\ customPatch1 \in Range(history.before)
    /\ Len(PatchesOf(folder)) > Len(history.before)
    /\ IsSubsequence(history.before, PatchesOf(folder))

(***************************************************************************)
(* C13  The patches list keeps insertion order, no operation sorts or      *)
(* deduplicates it: AddPatches(s...) leaves the patches it held followed   *)
(* by s as given, and CompareDifferenceAndAddCustomPatches leaves the new  *)
(* generated entries followed by the original ones, each as given.         *)
(***************************************************************************)
C13_PatchesKeepInsertionOrder ==
    [][/\ history'.op = "AddPatches" =>
             \E s \in Lists : getPatchFiles(kust'.Patches) = PatchPaths \o s
       /\ history'.op = "CompareDifferenceAndAddCustomPatches" =>
             getPatchFiles(kust'.Patches)
                = Without(history'.generated, Range(history'.original))
                     \o history'.original]_vars

\* The lists that hold every element of S exactly once.
Orderings(S) == {s \in [1 .. Cardinality(S) -> S] : Range(s) = S}

(***************************************************************************)
(* C14  AddResources and AddBases are idempotent and order-independent:    *)
(* after any sequence of calls, whatever their order, grouping and         *)
(* repetitions, the list is the one a single call gives that adds the      *)
(* same set of paths, once each, to an empty Kustomization, in any order;  *)
(* the list depends only on the set of paths.                              *)
(***************************************************************************)
C14_OrderIndependent ==
    /\ JustCalled("AddResources") =>
          \A s \in Orderings(history.resources) :
             kust.Resources = AddResources(ZeroKustomization, s).Resources
    /\ JustCalled("AddBases") =>
          \A s \in Orderings(history.bases) :
             kust.Bases = AddBases(ZeroKustomization, s).Bases

C14_Witness ==
    /\ JustCalled("AddBases")
    /\ history.resources = Files
    /\ history.bases = {FileA, FileC}
    /\ kust.Resources = <<FileA, FileB, FileC>>
    /\ kust.Bases = <<FileA, FileC>>

NoDuplicates(s) == \A i, j \in DOMAIN s : i # j => s[i] # s[j]

\* No element of s is followed by a smaller one.
Ascending(s) == \A i, j \in DOMAIN s : i < j => ~StringLess(s[j], s[i])

(***************************************************************************)
(* C15  After every AddResources call the resources list, and after every  *)
(* AddBases call the bases list, holds no path twice and is in ascending   *)
(* lexicographic order, whatever list the call found (an unsorted one, or  *)
(* one with repetitions, as read from a file).                             *)
(***************************************************************************)
C15_SortedWithoutDuplicates ==
    /\ JustCalled("AddResources") =>
          NoDuplicates(kust.Resources) /\ Ascending(kust.Resources)
    /\ JustCalled("AddBases") => NoDuplicates(kust.Bases) /\ Ascending(kust.Bases)

C15_Witness ==
    /\ JustCalled("AddResources")
    /\ history.before = <<FileC, FileA>>
    /\ kust.Resources = <<FileA, FileB, FileC>>
    /\ kust.Bases = <<FileB, FileB>>

(***************************************************************************)
(* Reading the output folder and the record of the Generate call.          *)
(***************************************************************************)
JustGenerated == JustCalled("Generate") /\ history.err = NoError

Resources == history.options.KubernetesResources

Wrote(name) == name \in history.written

\* The document the canonical file name holds.
Holds(name) == folder[name].value

\* The canonical file name was written in this call and holds doc.
WroteDocument(name, doc) == Wrote(name) /\ folder[name] = DocumentFile(doc)

\* The first supplied Deployment, Service and Route are in their files.
FirstsInCanonicalFiles ==
    /\ Resources.Deployments # <<>> =>
          WroteDocument(deploymentFileName, Resources.Deployments[1])
    /\ Resources.Services # <<>> =>
          WroteDocument(serviceFileName, Resources.Services[1])
    /\ Resources.Routes # <<>> => WroteDocument(routeFileName, Resources.Routes[1])

\* other_resources.yaml was written in this call and holds docs.
WroteAggregate(docs) ==
    Wrote(otherFileName) /\ folder[otherFileName] = DocumentsFile(docs)

SeveralOfAKind ==
    \/ Len(Resources.Deployments) > 1
    \/ Len(Resources.Services) > 1
    \/ Len(Resources.Routes) > 1

(***************************************************************************)
(* C16 as claimed  With more than one Deployment, Service or Route, the    *)
(* first of each kind is in its canonical file and other_resources.yaml    *)
(* holds the extra Deployments, then the extra Services, then the extra    *)
(* Routes, then the Ingresses, then the Others entries.                    *)
(***************************************************************************)
C16_OthersAfterIngresses ==
    JustGenerated /\ SeveralOfAKind =>
       /\ FirstsInCanonicalFiles
       /\ WroteAggregate(Rest(Resources.Deployments) \o Rest(Resources.Services)
                            \o Rest(Resources.Routes) \o Resources.Ingresses
                            \o Resources.Others)

(***************************************************************************)
(* C16 as amended  With more than one Deployment, Service or Route, the    *)
(* first of each kind is in its canonical file and other_resources.yaml    *)
(* holds the Others entries first, then the extra Deployments, the extra   *)
(* Services, the extra Routes, and then the Ingresses.                     *)
(***************************************************************************)
C16_OthersFirst ==
    JustGenerated /\ SeveralOfAKind =>
       /\ FirstsInCanonicalFiles
       /\ WroteAggregate(Resources.Others \o Rest(Resources.Deployments)
                            \o Rest(Resources.Services) \o Rest(Resources.Routes)
                            \o Resources.Ingresses)

C16_Witness ==
    /\ JustGenerated
    /\ Resources.Deployments = Supplied("Deployment", 2)
    /\ Resources.Services = <<>>
    /\ Resources.Routes = <<>>
    /\ Resources.Ingresses = Supplied("Ingress", 2)
    /\ Resources.Others = Supplied("Pod", 1)
    /\ WroteDocument(deploymentFileName, Document("Deployment", "supplied", 1))
    /\ WroteAggregate(<<Document("Pod", "supplied", 1),
                        Document("Deployment", "supplied", 2),
                        Document("Ingress", "supplied", 1),
                        Document("Ingress", "supplied", 2)>>)

CanonicalFileNames == {deploymentFileName, serviceFileName, routeFileName}

\* The resources list of the kustomization.yaml of the folder.
ListedResources == folder[kustomizeFileName].value.Resources

NoAggregateFile ==
    /\ history.written \subseteq CanonicalFileNames \cup {kustomizeFileName}
    /\ ~Wrote(otherFileName)
    /\ otherFileName \notin Range(ListedResources)

AtMostOne(docs) == Len(docs) <= 1

(***************************************************************************)
(* C17 as claimed  With zero or one resource of each kind (Deployment,     *)
(* Service, Route, Ingress, Others), Generate writes only canonical files  *)
(* and kustomization.yaml: other_resources.yaml is not written and not     *)
(* listed in the kustomization resources.                                  *)
(***************************************************************************)
C17_NoAggregateUpToOneOfEachKind ==
    /\ JustGenerated
    /\ AtMostOne(Resources.Deployments)
    /\ AtMostOne(Resources.Services)
    /\ AtMostOne(Resources.Routes)
    /\ AtMostOne(Resources.Ingresses)
    /\ AtMostOne(Resources.Others)
    => NoAggregateFile

(***************************************************************************)
(* C17 as amended  With zero or one Deployment, Service and Route and no   *)
(* Ingress and no Others entry, Generate writes only canonical files and   *)
(* kustomization.yaml: other_resources.yaml is not written and not listed  *)
(* in the kustomization resources.                                         *)
(***************************************************************************)
C17_NoAggregateWithoutExtras ==
    /\ JustGenerated
    /\ AtMostOne(Resources.Deployments)
    /\ AtMostOne(Resources.Services)
    /\ AtMostOne(Resources.Routes)
    /\ Resources.Ingresses = <<>>
    /\ Resources.Others = <<>>
    => NoAggregateFile

C17_Witness ==
    /\ JustGenerated
    /\ Resources.Deployments = Supplied("Deployment", 1)
    /\ Resources.Services = Supplied("Service", 1)
    /\ Resources.Routes = <<>>
    /\ Resources.Ingresses = <<>>
    /\ Resources.Others = <<>>
    /\ history.options.TargetPort = 0
    /\ history.written = {deploymentFileName, serviceFileName, kustomizeFileName}
    /\ Exists(folder, otherFileName)
    /\ ListedResources = <<deploymentFileName, serviceFileName>>

Synthesized(name) == Wrote(name) /\ Holds(name).origin = "synthesized"

ExplicitMode ==
    \/ Resources.Deployments # <<>>
    \/ Resources.Services # <<>>
    \/ Resources.Routes # <<>>
    \/ Resources.Ingresses # <<>>
    \/ Resources.Others # <<>>

(***************************************************************************)
(* C18 as claimed  Generate synthesizes default resources only when        *)
(* KubernetesResources has no entry of any kind: with at least one         *)
(* Deployment, Service, Route, Ingress or Others entry supplied, no        *)
(* Deployment, Service or Route is synthesized.                            *)
(***************************************************************************)
C18_NoSynthesisInExplicitMode ==
    JustGenerated /\ ExplicitMode =>
       \A name \in CanonicalFileNames : ~Synthesized(name)

(***************************************************************************)
(* C18 as amended  Generate synthesizes a default Deployment, Service or   *)
(* Route only when KubernetesResources has no entry of that kind: with at  *)
(* least one Deployment (Service, Route) supplied, no Deployment (Service, *)
(* Route) is synthesized, whatever is supplied of the other kinds.         *)
(***************************************************************************)
C18_NoSynthesisOfSuppliedKind ==
    JustGenerated =>
       /\ Resources.Deployments # <<>> => ~Synthesized(deploymentFileName)
       /\ Resources.Services # <<>> => ~Synthesized(serviceFileName)
       /\ Resources.Routes # <<>> => ~Synthesized(routeFileName)

C18_Witness ==
    /\ JustGenerated
    /\ Resources.Deployments = Supplied("Deployment", 1)
    /\ Resources.Services = <<>>
    /\ Resources.Routes = <<>>
    /\ history.options.TargetPort # 0
    /\ WroteDocument(deploymentFileName, Document("Deployment", "supplied", 1))
    /\ Synthesized(serviceFileName)
    /\ Synthesized(routeFileName)

(***************************************************************************)
(* C19  Generate writes a synthesized Service (Route) exactly when the     *)
(* target port is not 0 and no Service (Route) is supplied; when one is    *)
(* supplied, service.yaml (route.yaml) holds the first supplied one; when  *)
(* the target port is 0 and none is supplied, the file is not written.     *)
(***************************************************************************)
C19_ServiceAndRouteSynthesis ==
    JustGenerated =>
       /\ Synthesized(serviceFileName)
             <=> (history.options.TargetPort # 0 /\ Resources.Services = <<>>)
       /\ Synthesized(routeFileName)
             <=> (history.options.TargetPort # 0 /\ Resources.Routes = <<>>)
       /\ Resources.Services # <<>> =>
             WroteDocument(serviceFileName, Resources.Services[1])
       /\ Resources.Routes # <<>> => WroteDocument(routeFileName, Resources.Routes[1])
       /\ history.options.TargetPort = 0 /\ Resources.Services = <<>> =>
             ~Wrote(serviceFileName)
       /\ history.options.TargetPort = 0 /\ Resources.Routes = <<>> =>
             ~Wrote(routeFileName)

C19_Witness ==
    /\ JustGenerated
    /\ history.options.TargetPort = 0
    /\ Resources.Services = <<>>
    /\ Resources.Routes = Supplied("Route", 2)
    /\ ~Wrote(serviceFileName)
    /\ WroteDocument(routeFileName, Document("Route", "supplied", 1))

(***************************************************************************)
(* C20  After a successful Generate, the resources list of the             *)
(* kustomization.yaml of the output folder is the set of the manifest      *)
(* file names this call wrote, each once, in ascending lexicographic       *)
(* order, and every file it lists exists in the output folder.             *)
(***************************************************************************)
C20_ResourcesAreTheWrittenFiles ==
    JustGenerated =>
       /\ Range(ListedResources) = history.written \ {kustomizeFileName}
       /\ NoDuplicates(ListedResources)
       /\ Ascending(ListedResources)
       /\ \A name \in Range(ListedResources) : Exists(folder, name)

C20_Witness ==
    /\ JustGenerated
    /\ history.written = {deploymentFileName, serviceFileName, routeFileName,
                          otherFileName, kustomizeFileName}
    /\ ListedResources
          = <<deploymentFileName, otherFileName, routeFileName, serviceFileName>>

(***************************************************************************)
(* Reading the record of a synthesis.                                      *)
(***************************************************************************)
\* The names of an environment, in its order.
EnvNamesOf(env) == [i \in DOMAIN env |-> env[i].Name]

\* The value env gives to a name it holds.
ValueIn(env, name) == (CHOOSE e \in Range(env) : e.Name = name).Value

\* The variables of overlay whose names base does not hold.
NewIn(overlay, base) == SelectSeq(overlay, LAMBDA e : ~IsPresent(base, e.Name))

JustPatched == JustCalled("generateDeploymentPatch")

(***************************************************************************)
(* C21, as claimed.  In the overlay Deployment patch, a variable named in  *)
(* both BaseEnvVar and OverlayEnvVar carries the overlay value, and the    *)
(* overlay variables with new names are appended after the base            *)
(* variables.                                                              *)
(***************************************************************************)
C21_OverlayValueWins ==
    JustPatched =>
        LET base == history.component.BaseEnvVar
            overlay == history.component.OverlayEnvVar
            env == history.result.Env
        IN  /\ EnvNamesOf(env) = EnvNamesOf(base \o NewIn(overlay, base))
            /\ \A i \in DOMAIN env :
                  env[i].Value = IF IsPresent(overlay, env[i].Name)
                                 THEN ValueIn(overlay, env[i].Name)
                                 ELSE ValueIn(base, env[i].Name)

(***************************************************************************)
(* C21, amended.  In the overlay Deployment patch, a variable named in     *)
(* both BaseEnvVar and OverlayEnvVar carries the base value (the overlay   *)
(* entry of that name is dropped), and the overlay variables with new      *)
(* names are appended after the base variables, in the overlay's order.    *)
(***************************************************************************)
C21_BaseValueKept ==
    JustPatched =>
        LET base == history.component.BaseEnvVar
            overlay == history.component.OverlayEnvVar
        IN  history.result.Env = base \o NewIn(overlay, base)

\* TestGenerateDeploymentPatch's case: FOO in both, FOO2 in the overlay only.
C21_Witness ==
    /\ JustPatched
    /\ history.component.BaseEnvVar = <<EnvVar("FOO", "BAR")>>
    /\ history.component.OverlayEnvVar
          = <<EnvVar("FOO", "BAR_ENV"), EnvVar("FOO2", "BAR_ENV")>>
    /\ history.result.Env = <<EnvVar("FOO", "BAR"), EnvVar("FOO2", "BAR_ENV")>>

(***************************************************************************)
(* C22.  No call retains state in the process: the Deployment synthesized  *)
(* for a component is the one a new process synthesizes for it, whatever   *)
(* calls ran earlier.  GenerateAndPush assigns its createdBy argument to   *)
(* the package variable CreatedBy, which the default labels of every later *)
(* synthesis read, so this statement fails on the code.                    *)
(***************************************************************************)
C22_NoStateAcrossCalls ==
    JustCalled("generateDeployment") =>
        history.result.Labels
            = IF history.component.K8sLabels # EmptyMap
              THEN history.component.K8sLabels
              ELSE DefaultLabels(history.component, DefaultCreatedBy)

(***************************************************************************)
(* C29.  For every options value, the selector match-labels and the        *)
(* pod-template labels of the synthesized Deployment are exactly           *)
(* {app.kubernetes.io/instance: <component name>}, also when K8sLabels     *)
(* gives the object another instance label, and the selector of the        *)
(* synthesized Service is that same map, so that it selects the pods of    *)
(* the Deployment synthesized from the same options.                       *)
(***************************************************************************)
C29_SelectorIsInstanceOfComponent ==
    LET instance == [key \in {InstanceKey} |-> history.component.Name]
    IN  /\ JustCalled("generateDeployment") =>
              /\ history.result.Selector = instance
              /\ history.result.TemplateLabels = instance
        /\ JustCalled("generateService") =>
              /\ history.result.Selector = instance
              /\ \A key \in DOMAIN history.result.Selector :
                    /\ key \in DOMAIN DeploymentManifest(history.component).TemplateLabels
                    /\ DeploymentManifest(history.component).TemplateLabels[key]
                          = history.result.Selector[key]

C29_Witness ==
    /\ JustCalled("generateService")
    /\ history.component.Name = "test-component"
    /\ history.result.Labels[InstanceKey] = "ComponentCRName"
    /\ history.result.Selector[InstanceKey] = "test-component"

(***************************************************************************)
(* Reading the kustomization.yaml of the overlay folder.                   *)
(***************************************************************************)
HoldsKustomization(fld) ==
    Exists(fld, kustomizeFileName) /\ fld[kustomizeFileName].holds = "Kustomization"

HoldsMalformed(fld) ==
    Exists(fld, kustomizeFileName) /\ fld[kustomizeFileName] = MalformedFile

\* GenerateOverlays has just returned without error.
JustSucceeded == JustInvoked /\ history.err = NoError

C24_MalformedFileIsAnError ==
    [][HoldsMalformed(folder) /\ history'.op = "GenerateOverlays"
          => /\ history'.err # NoError
             /\ HoldsMalformed(folder')]_vars

\* The invocation got as far as the file: it wrote the patch, failed on the
\* kustomization and left it.
C24_Witness ==
    /\ JustInvoked
    /\ history.err = "failed to unmarshal data"
    /\ HoldsMalformed(folder)
    /\ Exists(folder, deploymentPatchFileName)

(***************************************************************************)
(* C25  ValidateRemote returns no error exactly when the scheme of the     *)
(* remote is https and its host is one of the allowed Git hosts, with or   *)
(* without a token before the host; for every other remote (http, a host   *)
(* not in the list, no scheme) it returns the one invalid-remote error.    *)
(***************************************************************************)
C25_ValidRemotes ==
    JustCalled("ValidateRemote") =>
        /\ history.err \in {NoError, invalidRemoteMsg}
        /\ history.err = NoError
              <=> history.scheme = Https /\ history.host \in AllowedHosts

\* TestValidateRemoteURL's first case: a token and the gitlab domain.
C25_Witness ==
    /\ JustCalled("ValidateRemote")
    /\ history.scheme = Https
    /\ history.user = "2340908kjfas"
    /\ history.host = "gitlab.com"
    /\ history.err = NoError

\* Part i of msg is a token in the user information of an https URL.
IsTokenAt(msg, i) ==
    /\ 1 < i
    /\ i < Len(msg)
    /\ msg[i] \in ProviderTokens
    /\ msg[i - 1] = Https
    /\ msg[i + 1] = At

(***************************************************************************)
(* C26  SanitizeErrorMessage replaces every provider-prefixed token that   *)
(* stands in the user information of an https URL by <TOKEN> and nothing   *)
(* else, so that a message with such a token holds <TOKEN> afterwards and  *)
(* a message without one is returned as it is, also when it holds a token  *)
(* outside a URL or a URL with empty user information.                     *)
(***************************************************************************)
C26_TokensSanitized ==
    JustCalled("SanitizeErrorMessage") =>
        LET msg == history.msg
            result == history.result
        IN  /\ result = [i \in DOMAIN msg |->
                            IF IsTokenAt(msg, i) THEN TokenMark ELSE msg[i]]
            /\ (\E i \in DOMAIN msg : IsTokenAt(msg, i))
                  => \E i \in DOMAIN result : result[i] = TokenMark
            /\ ~(\E i \in DOMAIN msg : IsTokenAt(msg, i)) => result = msg

\* TestSanitizeErrorMessage's message with two tokens.
C26_Witness ==
    /\ JustCalled("SanitizeErrorMessage")
    /\ history.msg = <<Https, "ghp_fj3492danj924", At, Https, "ghu_fj3492danj924", At>>
    /\ history.result = <<Https, TokenMark, At, Https, TokenMark, At>>

\* fmt.Errorf(unsupportedCmdMsg, cmd)
UnsupportedCommand(cmd) == Errorf("Unsupported command \"%s\" ", <<cmd>>)

(***************************************************************************)
(* C27  Executing a command that is neither git nor rm fails at once with  *)
(* the unsupported-command error: no process is started and no execution   *)
(* is recorded for it.  CmdExecutor.Execute hands every command to         *)
(* exec.Command unchecked, so this statement fails on the code.            *)
(***************************************************************************)
C27_UnsupportedCommandFails ==
    [][history'.op = "Execute" /\ history'.execution.Command \notin {"git", "rm"}
          => /\ history'.err = UnsupportedCommand(history'.execution.Command)
             /\ ~history'.started
             /\ executedCmds' = executedCmds]_vars

\* The repository directory of a RemoveAndPush call.
C28_RepoDir == Join(<<call.outputPath, call.componentName>>)

\* The whole directory of the component, below the context.
C28_ComponentDir ==
    Join(<<C28_RepoDir, call.context, Rel(<<"components">>), call.componentName>>)

C28_Expected ==
    << [BaseDir |-> call.outputPath, Command |-> "git",
        Args |-> <<Word("clone"), call.remote, call.componentName>>],
       [BaseDir |-> C28_RepoDir, Command |-> "git",
        Args |-> <<Word("switch"), call.branch>>],
       [BaseDir |-> C28_RepoDir, Command |-> "rm",
        Args |-> <<Word("-rf"), C28_ComponentDir>>],
       [BaseDir |-> C28_RepoDir, Command |-> "git",
        Args |-> <<Word("add"), Word(".")>>],
       [BaseDir |-> C28_RepoDir, Command |-> "git",
        Args |-> <<Word("--no-pager"), Word("diff"), Word("--cached")>>],
       [BaseDir |-> C28_RepoDir, Command |-> "git",
        Args |-> <<Word("commit"), Word("-m"),
                   [fmt |-> "Removed component %s",
                    args |-> <<call.componentName>>]>>],
       [BaseDir |-> C28_RepoDir, Command |-> "git",
        Args |-> <<Word("push"), Word("origin"), call.branch>>] >>

C28_FullRun ==
    /\ call.op = "RemoveAndPush"
    /\ call.doPush
    /\ Returned
    /\ AllSucceeded
    /\ diffOut \notin {"", NoOutput}

\* The rm -rf of the call failed.
C28_RmFailed ==
    \E i \in Cmds : IsRm(executedCmds[i]) /\ cmdResults[i] = "err"

(***************************************************************************)
(* C28  RemoveAndPush executes, in this order: git clone, the branch       *)
(* resolution (git switch, and git checkout -b if the switch fails),       *)
(* rm -rf of the whole directory of the component, the recomputation of    *)
(* the parent kustomization, then git add, git diff, git commit -m         *)
(* "Removed component <name>" and git push.  When the rm or the            *)
(* recomputation fails, the call returns an error and executes no add,     *)
(* diff, commit or push.                                                   *)
(***************************************************************************)
C28_RemovalSequence ==
    call.op = "RemoveAndPush" =>
        /\ C28_FullRun => executedCmds = C28_Expected /\ ReturnedNil
        /\ \A i \in Cmds :
              IsRm(executedCmds[i]) =>
                 /\ executedCmds[i].Args = <<Word("-rf"), C28_ComponentDir>>
                 /\ IsClone(executedCmds[1])
                 /\ IsSwitch(executedCmds[2])
                 /\ \/ i = 3 /\ cmdResults[2] = "ok"
                    \/ i = 4 /\ IsCheckout(executedCmds[3]) /\ cmdResults[3] = "ok"
                 /\ FollowedByLaterSteps(i - 1)
        /\ regen # "none" => Ran(IsRm) /\ ~C28_RmFailed
        /\ Ran(IsAdd) => regen = "ok"
        /\ C28_RmFailed \/ regen = "err" =>
              /\ ReturnedError
              /\ ~Ran(IsAdd)
              /\ ~Ran(IsDiff)
              /\ ~Ran(IsCommit)
              /\ ~Ran(IsPush)
        /\ \A i \in Cmds :
              IsCommit(executedCmds[i]) =>
                 executedCmds[i].Args[3]
                    = [fmt |-> "Removed component %s", args |-> <<call.componentName>>]

C28_Witness == C28_FullRun /\ call.context = Rel(<<"gitops">>)

\* The generator step of a GenerateOverlaysAndPush call that succeeds.
C30_Generates ==
    /\ pc = "generate"
    /\ call.op = "GenerateOverlaysAndPush"
    /\ regen' = "ok"

\* The call has returned without error.
C30_Succeeded ==
    /\ call'.op = "GenerateOverlaysAndPush"
    /\ pc' = "done"
    /\ ret' = Nil

(***************************************************************************)
(* C30, as claimed.  After a successful GenerateOverlaysAndPush called     *)
(* with a componentGeneratedResources map, the map has an entry for the    *)
(* component, every filename recorded under it is deployment-patch.yaml,   *)
(* and no key for another component was added.                             *)
(***************************************************************************)
C30_OnlyThePatchRecorded ==
    [][/\ C30_Succeeded =>
             /\ call'.componentName \in DOMAIN componentGeneratedResources'
             /\ \A i \in DOMAIN componentGeneratedResources'[call'.componentName] :
                   componentGeneratedResources'[call'.componentName][i]
                      = "deployment-patch.yaml"
       /\ DOMAIN componentGeneratedResources'
             \subseteq DOMAIN componentGeneratedResources \cup {call'.componentName}
      ]_vars

(***************************************************************************)
(* C30, amended.  After a successful GenerateOverlaysAndPush called with   *)
(* a componentGeneratedResources map, the map has an entry for the         *)
(* component, every filename recorded under it is deployment-patch.yaml    *)
(* or was recorded under it before the call, and no key for another        *)
(* component was added or changed.                                         *)
(***************************************************************************)
C30_PatchRecordedWithTheOthers ==
    [][LET before == componentGeneratedResources
           after == componentGeneratedResources'
           name == call.componentName
       IN  /\ C30_Generates =>
                 /\ DOMAIN after = DOMAIN before \cup {name}
                 /\ Range(after[name])
                       = (IF name \in DOMAIN before THEN Range(before[name]) ELSE {})
                            \cup {"deployment-patch.yaml"}
                 /\ \A other \in DOMAIN before \ {name} : after[other] = before[other]
           /\ ~C30_Generates => after = before
           /\ C30_Succeeded =>
                 /\ call'.componentName \in DOMAIN after
                 /\ "deployment-patch.yaml" \in Range(after[call'.componentName])
      ]_vars

\* The map came with patch1.yaml recorded for the component.
C30_Witness ==
    /\ call.op = "GenerateOverlaysAndPush"
    /\ ReturnedNil
    /\ call.doPush
    /\ ComponentName \in DOMAIN componentGeneratedResources
    /\ componentGeneratedResources[ComponentName]
          = <<"patch1.yaml", "deployment-patch.yaml">>

(***************************************************************************)
(* C31.  In every sync call, `git push` is executed only if `git commit`   *)
(* succeeded earlier in the same call, and `git commit` only if `git add`  *)
(* succeeded and the diff check succeeded with non-empty output.           *)
(***************************************************************************)
SucceededBefore(i, Is(_)) ==
    \E j \in Cmds : j < i /\ Is(executedCmds[j]) /\ cmdResults[j] = "ok"

C31_PushAfterCommitAfterDiff ==
    \A i \in Cmds :
       /\ IsPush(executedCmds[i]) => SucceededBefore(i, IsCommit)
       /\ IsCommit(executedCmds[i]) =>
             /\ SucceededBefore(i, IsAdd)
             /\ SucceededBefore(i, IsDiff)
             /\ diffOut \notin {NoOutput, ""}

\* A removal that went as far as the push.
C31_Witness ==
    /\ Returned
    /\ Ran(IsPush)
    /\ call.op = "RemoveAndPush"

(***************************************************************************)
(* C32.  Whenever the original patch list contains no duplicate path, the  *)
(* list produced by CompareDifferenceAndAddCustomPatches contains no       *)
(* duplicate path, for every generated list, including one that names the  *)
(* same file more than once.                                               *)
(***************************************************************************)
C32_MergeAddsNoDuplicate ==
    JustMerged /\ NoDuplicates(history.original) => NoDuplicates(PatchPaths)

(***************************************************************************)
(* C33.  The patch preservation merge is idempotent under repetition:      *)
(* with the result of CompareDifferenceAndAddCustomPatches(original,       *)
(* generated) as the original and the same generated list it yields the    *)
(* same patch list.                                                        *)
(***************************************************************************)
MergedAgain ==
    CompareDifferenceAndAddCustomPatches(kust, kust.Patches, history.generated)

C33_MergeIsIdempotent ==
    JustMerged => MergedAgain.Patches = kust.Patches

\* The first merge put a new entry before a custom one; the second has
\* nothing to add.
C33_Witness ==
    /\ JustMerged
    /\ history.original = <<FileA>>
    /\ history.generated = <<FileB, FileA>>
    /\ PatchPaths = <<FileB, FileA>>
    /\ getPatchFiles(MergedAgain.Patches) = <<FileB, FileA>>

(***************************************************************************)
(* C35.  GenerateOverlaysAndPush with clone false executes no `git clone`, *)
(* `git switch` or `git checkout`: nothing is executed before the overlay  *)
(* regeneration, and with doPush set the only commands are add, diff,      *)
(* commit and push, in this order, in <outputPath>/<application>; without  *)
(* doPush no command is executed.                                          *)
(***************************************************************************)
C35_RepoDir ==
    [abs |-> TRUE, segs |-> call.outputPath.segs \o call.applicationName.segs]

C35_Expected ==
    << [BaseDir |-> C35_RepoDir, Command |-> "git",
        Args |-> <<Word("add"), Word(".")>>],
       [BaseDir |-> C35_RepoDir, Command |-> "git",
        Args |-> <<Word("--no-pager"), Word("diff"), Word("--cached")>>],
       [BaseDir |-> C35_RepoDir, Command |-> "git",
        Args |-> <<Word("commit"), Word("-m"),
                   [fmt |-> "Generate %s environment overlays for component %s",
                    args |-> <<call.environmentName, call.componentName>>]>>],
       [BaseDir |-> C35_RepoDir, Command |-> "git",
        Args |-> <<Word("push"), Word("origin"), call.branch>>] >>

C35_WithoutClone == call.op = "GenerateOverlaysAndPush" /\ ~call.clone

C35_NoCloneNoBranch ==
    C35_WithoutClone =>
       /\ ~Ran(IsClone) /\ ~Ran(IsSwitch) /\ ~Ran(IsCheckout)
       /\ regen # "ok" => executedCmds = <<>>
       /\ ~call.doPush => executedCmds = <<>>
       /\ Len(executedCmds) <= 4
       /\ executedCmds = SubSeq(C35_Expected, 1, Len(executedCmds))

\* The overlays were regenerated in the tree an earlier call left, and all
\* four commands ran.
C35_Witness ==
    /\ C35_WithoutClone
    /\ call.doPush
    /\ ReturnedNil
    /\ Len(executedCmds) = 4

(***************************************************************************)
(* C36.  In every sync call, each command after `git clone` runs with its  *)
(* working directory equal to outputPath joined with the directory name    *)
(* that was passed to `git clone` (the component name for generate and     *)
(* remove, the application name for overlays), including the add, diff,    *)
(* commit and push issued through CommitAndPush.                           *)
(***************************************************************************)
C36_ClonedInto == executedCmds[1].Args[3]

C36_WorkingDirIsTheClone ==
    Ran(IsClone) =>
       /\ IsClone(executedCmds[1])
       /\ C36_ClonedInto = (IF call.op = "GenerateOverlaysAndPush"
                            THEN call.applicationName ELSE call.componentName)
       /\ \A i \in Cmds \ {1} :
             executedCmds[i].BaseDir =
                [abs |-> TRUE, segs |-> call.outputPath.segs \o C36_ClonedInto.segs]

\* The overlays were cloned, regenerated and pushed.
C36_Witness ==
    /\ call.op = "GenerateOverlaysAndPush"
    /\ call.clone
    /\ Returned
    /\ Ran(IsPush)

(***************************************************************************)
(* C38.  Every call of CloneGenerateAndPush, GenerateOverlaysAndPush and   *)
(* RemoveAndPush terminates, provided each executor command and            *)
(* filesystem operation returns: it executes at most 8 commands (7 for     *)
(* GenerateOverlaysAndPush) and then returns either success or an error.   *)
(***************************************************************************)
C38_Running == pc \notin {"idle", "done"}

C38_Bounded ==
    /\ Len(executedCmds) <= 8
    /\ call.op = "GenerateOverlaysAndPush" => Len(executedCmds) <= 7
    /\ Returned => ret = Nil \/ ret.state = "error"

C38_CallsTerminate == []C38_Bounded /\ (C38_Running ~> Returned)

\* A removal that needed all eight commands.
C38_Witness ==
    /\ call.op = "RemoveAndPush"
    /\ Returned
    /\ Len(executedCmds) = 8

(***************************************************************************)
(* C34.  When doPush is false, CloneGenerateAndPush,                       *)
(* GenerateOverlaysAndPush, RemoveAndPush and GenerateAndPush execute no   *)
(* `git add`, diff, commit or push (GenerateAndPush executes no command at *)
(* all and makes no call on the client of the hosting service), while      *)
(* clone, branch resolution, purge and regeneration still take place: a    *)
(* call that returns success has regenerated, after a clone and a switch   *)
(* where the function clones and after the rm where it purges.             *)
(***************************************************************************)
C34_Functions ==
    {"CloneGenerateAndPush", "GenerateOverlaysAndPush", "RemoveAndPush",
     "GenerateAndPush"}

C34_Clones ==
    \/ call.op \in {"CloneGenerateAndPush", "RemoveAndPush"}
    \/ call.op = "GenerateOverlaysAndPush" /\ call.clone

C34_NothingStagedWithoutDoPush ==
    call.op \in C34_Functions /\ ~call.doPush =>
       /\ ~Ran(IsAdd) /\ ~Ran(IsDiff) /\ ~Ran(IsCommit) /\ ~Ran(IsPush)
       /\ call.op = "GenerateAndPush" => executedCmds = <<>> /\ scmCalls = <<>>
       /\ ReturnedNil =>
             /\ regen = "ok"
             /\ C34_Clones => Ran(IsClone) /\ Ran(IsSwitch)
             /\ call.op \in {"CloneGenerateAndPush", "RemoveAndPush"} => Ran(IsRm)

\* GenerateAndPush has written the manifests and returned.
C34_Witness ==
    /\ call.op = "GenerateAndPush"
    /\ ~call.doPush
    /\ ReturnedNil
    /\ File(NewComponentPath(call), "deployment.yaml") \in disk

(***************************************************************************)
(* C37.  GenerateAndPush with doPush set generates the manifests first,    *)
(* then creates the remote repository, and only after a successful         *)
(* creation executes `git init .`, `git add .`, `git commit`,              *)
(* `git branch -m <branch>`, `git remote add origin <remote>`,             *)
(* `git push -u origin <branch>` in that order, with no diff check; if     *)
(* generation, client creation, user lookup or repository creation fails,  *)
(* no git command is executed.                                             *)
(***************************************************************************)
C37_RepoDir ==
    [abs |-> TRUE, segs |-> call.outputPath.segs \o call.applicationName.segs]

C37_Expected ==
    << [BaseDir |-> C37_RepoDir, Command |-> "git",
        Args |-> <<Word("init"), Word(".")>>],
       [BaseDir |-> C37_RepoDir, Command |-> "git",
        Args |-> <<Word("add"), Word(".")>>],
       [BaseDir |-> C37_RepoDir, Command |-> "git",
        Args |-> <<Word("commit"), Word("-m"),
                   [fmt |-> "Generate GitOps resources", args |-> <<>>]>>],
       [BaseDir |-> C37_RepoDir, Command |-> "git",
        Args |-> <<Word("branch"), Word("-m"), call.branch>>],
       [BaseDir |-> C37_RepoDir, Command |-> "git",
        Args |-> <<Word("remote"), Word("add"), Word("origin"), call.remote>>],
       [BaseDir |-> C37_RepoDir, Command |-> "git",
        Args |-> <<Word("push"), Word("-u"), Word("origin"), call.branch>>] >>

C37_Failed(api) ==
    \E i \in DOMAIN scmCalls : scmCalls[i].api = api /\ scmCalls[i].result = "err"

C37_Created ==
    /\ Len(scmCalls) = 3
    /\ [i \in 1 .. 3 |-> scmCalls[i].api]
          = <<"factory.FromRepoURL", "Users.Find", "Repositories.Create">>
    /\ \A i \in 1 .. 3 : scmCalls[i].result = "ok"

C37_GenerateCreateThenPush ==
    call.op = "GenerateAndPush" /\ call.doPush =>
       /\ scmCalls # <<>> => regen = "ok"
       /\ executedCmds # <<>> => C37_Created
       /\ Len(executedCmds) <= 6
       /\ executedCmds = SubSeq(C37_Expected, 1, Len(executedCmds))
       /\ \A i \in Cmds : i < Len(executedCmds) => cmdResults[i] = "ok"
       /\ ~Ran(IsDiff)
       /\ \/ regen = "err"
          \/ C37_Failed("factory.FromRepoURL")
          \/ C37_Failed("Users.Find")
          \/ C37_Failed("Repositories.Create")
          => executedCmds = <<>>

\* The repository was created and all six commands ran.
C37_Witness ==
    /\ call.op = "GenerateAndPush"
    /\ call.doPush
    /\ ReturnedNil
    /\ C37_Created
    /\ executedCmds = C37_Expected

====
